---- MODULE Spec2Model ----
\* A model of aiana's multi-backend memory subsystem: the MCP server's
\* aggregated search (mcp/server.py), the context composer
\* (context/injector.py), the Redis profile and context cache
\* (storage/redis.py) and the feedback ledger (storage/sqlite.py).
EXTENDS Integers, Sequences, FiniteSets, TLC

VARIABLES
    srv,        \* AianaMCPServer fields: which backend handles are not None
    reply,      \* what the last call_tool invocation returned
    asked,      \* the backend queries issued by the last _memory_search
    feedback,   \* rows of the memory_feedback table, in insertion order
    cfg,        \* ContextInjector fields: which handles are not None
    ctxCache,   \* Redis keys aiana:context:<project>: cached text or None
    profile,    \* Redis key aiana:profile:default: the Profile or None
    collection, \* points of the Qdrant collection, in scroll order
    sessions,   \* rows of the sessions table, in insertion order
    out,        \* outcome of the last direct call of an API method
    pending,    \* <<project, dropped>>: a save_session_summary of a recalled
                \* project has completed (dropped: it deleted a cache entry)
                \* and no generate_context of the project has followed yet
    issued,     \* how many distinct dynamic preference strings were stored
    settings,   \* ~/.claude/settings.json as install_hooks/uninstall_hooks see it
    running,    \* calls in progress: the generate_context invocations that
                \* have not returned yet (calls), the projects whose cache
                \* entry was computed before their latest saved summary
                \* (stale), and the _memory_search in progress (search)
    capture     \* the capture of one transcript: the transcript file, the
                \* messages table, the sessions row of the transcript's
                \* session, and the TranscriptHandler that follows the file

server == <<srv, reply, asked>>
stores == <<ctxCache, profile, collection, sessions>>
extra == <<settings, running, capture>>
vars == <<srv, reply, asked, feedback, cfg, ctxCache, profile, collection,
          sessions, out, pending, issued, settings, running, capture>>

\* ------------------------------------------------------------------
\* Bounds of the model
\* ------------------------------------------------------------------
MaxRaw == 2        \* longest hit list a backend service hands back
MaxLimit == 3      \* largest limit argument of a search
MaxFeedback == 3   \* rows in the feedback table
MaxMem == 1        \* points in the Qdrant collection
MaxSessions == 1   \* rows in the sessions table

\* ------------------------------------------------------------------
\* Generic helpers
\* ------------------------------------------------------------------
None == "None"

Min(a, b) == IF a <= b THEN a ELSE b

Take(s, n) == IF n <= 0 THEN <<>> ELSE SubSeq(s, 1, Min(n, Len(s)))

\* Python s[-n:] for n > 0
LastN(s, n) == IF Len(s) <= n THEN s ELSE SubSeq(s, Len(s) - n + 1, Len(s))

\* The outcome of a call that raised an exception.
Raise == [kind |-> "raise", value |-> <<>>]

\* What a service does when it is called: it fails, or it answers.
Fails(answer) == answer.fails

\* ------------------------------------------------------------------
\* storage/mem0.py : Mem0Storage.search
\* ------------------------------------------------------------------
\* Scores are in tenths: 5 is the default min_score of 0.5.
MIN_SCORE == 5

SearchProjects == {None, "p"}

\* One item of the mem0 library's answer: its score and the project of
\* its metadata.  The item at position i of an answer has id i.
Mem0ItemKinds == [score : {3, 8}, project : {"p", "q"}]

RECURSIVE SeqsUpTo(_, _)
SeqsUpTo(S, n) ==
    IF n = 0 THEN {<<>>}
    ELSE LET shorter == SeqsUpTo(S, n - 1)
         IN  shorter \cup {Append(s, x) : s \in {t \in shorter : Len(t) = n - 1}, x \in S}

\* What self.memory.search(query, user_id, limit=limit*2) may hand back.
Mem0LibAnswers ==
    {[i \in 1..Len(s) |-> [id |-> i, score |-> s[i].score, project |-> s[i].project]] :
        s \in SeqsUpTo(Mem0ItemKinds, MaxRaw)}

\* The loop of Mem0Storage.search over the library's items: skip an item
\* below min_score or of another project, append the others, and leave
\* the loop once len(memories) >= limit (tested after the append).
RECURSIVE Mem0Loop(_, _, _, _)
Mem0Loop(items, memories, limit, project) ==
    IF items = <<>> THEN memories
    ELSE LET item == Head(items)
         IN  IF item.score < MIN_SCORE
               THEN Mem0Loop(Tail(items), memories, limit, project)
             ELSE IF project # None /\ item.project # project
               THEN Mem0Loop(Tail(items), memories, limit, project)
             ELSE LET appended == Append(memories, [id |-> item.id, project |-> item.project])
                  IN  IF Len(appended) >= limit
                        THEN appended
                        ELSE Mem0Loop(Tail(items), appended, limit, project)

Mem0Search(answer, limit, project) ==
    IF Fails(answer) THEN Raise
    ELSE [kind |-> "return", value |-> Mem0Loop(answer.items, <<>>, limit, project)]

\* ------------------------------------------------------------------
\* storage/qdrant.py : QdrantStorage.search
\* ------------------------------------------------------------------
\* The payload of a stored point: it has a content, or it has none.
PayloadContents == {"text", "missing"}

\* hit.payload.get("content", ""): a payload without content gives "".
PayloadGetContent(payload) == IF payload = "missing" THEN "" ELSE payload

\* The Qdrant service holds n matching points (answer.items: the content
\* of each payload); client.search(limit=limit) hands back the first
\* limit of them, and search() maps every hit.
QdrantSearch(answer, limit) ==
    IF Fails(answer) THEN Raise
    ELSE [kind |-> "return",
          value |-> [i \in 1..Min(answer.n, limit) |->
                        [id |-> i, content |-> PayloadGetContent(answer.items[i])]]]

\* ------------------------------------------------------------------
\* storage/sqlite.py : AianaStorage.search
\* ------------------------------------------------------------------
\* SELECT ... ORDER BY rank LIMIT ?  (a negative LIMIT means no limit)
SqlLimit(rows, limit) == IF limit < 0 THEN rows ELSE Take(rows, limit)

SqliteSearch(answer, limit) ==
    IF Fails(answer) THEN Raise
    ELSE [kind |-> "return", value |-> SqlLimit([i \in 1..answer.n |-> [row |-> i]], limit)]

\* ------------------------------------------------------------------
\* mcp/server.py : AianaMCPServer._memory_search
\* ------------------------------------------------------------------
Tag(source, hits) == [i \in 1..Len(hits) |-> [source |-> source, hit |-> hits[i]]]

\* As Extend, but the new hits are put in front of the list.
ExtendInFront(results, source, outcome) ==
    IF outcome.kind = "raise" THEN results
    ELSE Tag(source, outcome.value) \o results

\* As Extend, but an exception throws away what was gathered so far.
ExtendOrReset(results, source, outcome) ==
    IF outcome.kind = "raise" THEN <<>>
    ELSE results \o Tag(source, outcome.value)

\* One try/except block around a backend: an exception adds nothing.
Extend(results, source, outcome) ==
    IF outcome.kind = "raise" THEN results
    ELSE results \o Tag(source, outcome.value)

\* env.mem0, env.qdrant, env.sqlite: what each service does if queried.
AfterMem0(s, env, limit, project) ==
    IF s.mem0 THEN Extend(<<>>, "mem0", Mem0Search(env.mem0, limit, project))
    ELSE <<>>

QdrantQueried(s, r1, limit) == s.qdrant /\ Len(r1) < limit

AfterQdrant(s, env, limit, r1) ==
    IF QdrantQueried(s, r1, limit)
      THEN Extend(r1, "semantic", QdrantSearch(env.qdrant, limit - Len(r1)))
      ELSE r1

SqliteQueried(s, r2, limit) == s.sqlite /\ Len(r2) < limit

AfterSqlite(s, env, limit, r2) ==
    IF SqliteQueried(s, r2, limit)
      THEN Extend(r2, "fulltext", SqliteSearch(env.sqlite, limit - Len(r2)))
      ELSE r2

MemorySearchResults(s, env, limit, project) ==
    LET r1 == AfterMem0(s, env, limit, project)
        r2 == AfterQdrant(s, env, limit, r1)
    IN  AfterSqlite(s, env, limit, r2)

\* The queries _memory_search issues, in order: the limit it passes,
\* whether the call raised, and how many hits the backend handed back.
MemorySearchAsked(s, env, limit, project) ==
    LET r1 == AfterMem0(s, env, limit, project)
        r2 == AfterQdrant(s, env, limit, r1)
    IN  (IF s.mem0
              THEN <<[source |-> "mem0", limit |-> limit,
                      failed |-> Fails(env.mem0),
                      got |-> Len(Mem0Search(env.mem0, limit, project).value)]>>
              ELSE <<>>)
        \o (IF QdrantQueried(s, r1, limit)
              THEN <<[source |-> "semantic", limit |-> limit - Len(r1),
                      failed |-> Fails(env.qdrant),
                      got |-> Len(QdrantSearch(env.qdrant, limit - Len(r1)).value)]>>
              ELSE <<>>)
        \o (IF SqliteQueried(s, r2, limit)
              THEN <<[source |-> "fulltext", limit |-> limit - Len(r2),
                      failed |-> Fails(env.sqlite),
                      got |-> Len(SqliteSearch(env.sqlite, limit - Len(r2)).value)]>>
              ELSE <<>>)

MemorySearch(s, env, limit, project) ==
    LET results == MemorySearchResults(s, env, limit, project)
    IN  [kind |-> "return",
         value |-> [project |-> project, limit |-> limit,
                    count |-> Len(results), results |-> results]]

\* ------------------------------------------------------------------
\* cli.py : memory search
\* ------------------------------------------------------------------
\* up.mem0, up.qdrant: whether Mem0Storage() and QdrantStorage() can be
\* constructed. A try block whose constructor or search raises leaves
\* results as it was.
CliAfterMem0(up, env, limit, project) ==
    LET r == Mem0Search(env.mem0, limit, project)
    IN  IF up.mem0 /\ r.kind = "return" THEN r.value ELSE <<>>

\* if not results: the Qdrant block, which asks for limit again and
\* replaces results.
CliQdrantTried(r1) == r1 = <<>>

CliAfterQdrant(up, env, limit, r1) ==
    LET r == QdrantSearch(env.qdrant, limit)
    IN  IF ~CliQdrantTried(r1) THEN r1
        ELSE IF up.qdrant /\ r.kind = "return" THEN r.value ELSE r1

\* if not results: AianaStorage().search(query, project, limit), outside
\* any try block; the command prints the messages and returns.
CliSqliteQueried(r2) == r2 = <<>>

\* The backend queries the command issues, in order.
CliMemorySearchAsked(up, env, limit, project) ==
    LET r1 == CliAfterMem0(up, env, limit, project)
        r2 == CliAfterQdrant(up, env, limit, r1)
    IN  (IF up.mem0
              THEN <<[source |-> "mem0", limit |-> limit,
                      failed |-> Fails(env.mem0),
                      got |-> Len(Mem0Search(env.mem0, limit, project).value)]>>
              ELSE <<>>)
        \o (IF CliQdrantTried(r1) /\ up.qdrant
              THEN <<[source |-> "semantic", limit |-> limit,
                      failed |-> Fails(env.qdrant),
                      got |-> Len(QdrantSearch(env.qdrant, limit).value)]>>
              ELSE <<>>)
        \o (IF CliSqliteQueried(r2)
              THEN <<[source |-> "fulltext", limit |-> limit,
                      failed |-> Fails(env.sqlite),
                      got |-> Len(SqliteSearch(env.sqlite, limit).value)]>>
              ELSE <<>>)

\* How the command ends, and how many results or messages it prints.
CliMemorySearch(up, env, limit, project) ==
    LET r1 == CliAfterMem0(up, env, limit, project)
        r2 == CliAfterQdrant(up, env, limit, r1)
        messages == SqliteSearch(env.sqlite, limit)
    IN  IF CliSqliteQueried(r2)
          THEN [kind |-> messages.kind, printed |-> Len(messages.value)]
          ELSE [kind |-> "return", printed |-> Len(r2)]

\* ------------------------------------------------------------------
\* Text
\* ------------------------------------------------------------------
\* A string is a sequence of chunks <<s, n>>: n = 0 stands for the whole
\* of the string named s, n > 0 for its first n characters.
Lit(s) == << <<s, 0>> >>
NL == Lit("\n")

\* str(n) of an integer
Str(n) == << <<"int", n>> >>

\* Contents a caller hands in, and their lengths in characters.
Contents == {"c40", "c120", "c200"}
ContentLen(c) == CASE c = "c40" -> 40 [] c = "c120" -> 120 [] c = "c200" -> 200

\* Python text[:k] of a content string, whole or already cut.
Prefix(text, k) ==
    LET chunk == text[1]
        len == IF chunk[2] = 0 THEN ContentLen(chunk[1]) ELSE chunk[2]
    IN  IF len <= k THEN text ELSE << <<chunk[1], k>> >>

RECURSIVE Join(_, _)
\* sep.join(parts)
Join(parts, sep) ==
    IF parts = <<>> THEN <<>>
    ELSE IF Len(parts) = 1 THEN parts[1]
    ELSE parts[1] \o sep \o Join(Tail(parts), sep)

\* ------------------------------------------------------------------
\* Projects and paths
\* ------------------------------------------------------------------
Projects == {"a", "ab"}

\* A path is the sequence of its components below the root.
ProjectDir(project) == <<"projects", project>>

\* The directories with a .git entry: none under /projects.
GitDirs == {}

Chars(name) ==
    CASE name = "a" -> <<"a">>
      [] name = "ab" -> <<"a", "b">>
      [] name = "projects" -> <<"p", "r", "o", "j", "e", "c", "t", "s">>

RECURSIVE PathChars(_)
PathChars(path) ==
    IF path = <<>> THEN <<>>
    ELSE <<"/">> \o Chars(Head(path)) \o PathChars(Tail(path))

\* SQL: text LIKE '%' || pattern || '%'
Like(text, pattern) ==
    \E i \in 1..(Len(text) - Len(pattern) + 1) :
        SubSeq(text, i, i + Len(pattern) - 1) = pattern

\* pathlib: Path.parent and Path.name; the root is its own parent.
Parent(path) == IF path = <<>> THEN <<>> ELSE SubSeq(path, 1, Len(path) - 1)
Name(path) == IF path = <<>> THEN "" ELSE path[Len(path)]

\* ------------------------------------------------------------------
\* context/injector.py : ContextInjector.get_project_name
\* ------------------------------------------------------------------
\* git: the directories that hold a .git entry.
RECURSIVE GitRootWalk(_, _, _)
GitRootWalk(git_root, path, git) ==
    IF git_root = Parent(git_root) THEN Name(path)
    ELSE IF git_root \in git THEN Name(git_root)
    ELSE GitRootWalk(Parent(git_root), path, git)

GetProjectName(cwd, git) == GitRootWalk(cwd, cwd, git)

\* ------------------------------------------------------------------
\* storage/redis.py : context cache and profile
\* ------------------------------------------------------------------
MaxDynamic == 20

NoProfile == [static |-> <<>>, dynamic |-> <<>>, present |-> FALSE]

InList(x, list) == \E i \in 1..Len(list) : list[i] = x

\* get_profile(user_id) or {"static": [], "dynamic": []}
ProfileOrEmpty(prof) == [static |-> prof.static, dynamic |-> prof.dynamic]

\* As AddPreference, without the cut to the last MaxDynamic entries.
AddPreferenceUncapped(prof, preference, static) ==
    LET p == ProfileOrEmpty(prof)
        list == IF static THEN p.static ELSE p.dynamic
        grown == Append(list, preference)
    IN  IF InList(preference, list) THEN prof
        ELSE [static |-> IF static THEN grown ELSE p.static,
              dynamic |-> IF static THEN p.dynamic ELSE grown,
              present |-> TRUE]

\* As AddPreference, without the test `preference not in profile[key]`.
AddPreferenceUnchecked(prof, preference, static) ==
    LET p == ProfileOrEmpty(prof)
        list == IF static THEN p.static ELSE p.dynamic
        grown == Append(list, preference)
        kept == IF ~static /\ Len(grown) > MaxDynamic
                  THEN LastN(grown, MaxDynamic) ELSE grown
    IN  [static |-> IF static THEN kept ELSE p.static,
         dynamic |-> IF static THEN p.dynamic ELSE kept,
         present |-> TRUE]

\* RedisCache.add_preference on a reachable server: the Profile it
\* leaves under the key (json round trip of two lists of strings).
AddPreference(prof, preference, static) ==
    LET p == ProfileOrEmpty(prof)
        list == IF static THEN p.static ELSE p.dynamic
        grown == Append(list, preference)
        kept == IF ~static /\ Len(grown) > MaxDynamic
                  THEN LastN(grown, MaxDynamic) ELSE grown
    IN  IF InList(preference, list) THEN prof
        ELSE [static |-> IF static THEN kept ELSE p.static,
              dynamic |-> IF static THEN p.dynamic ELSE kept,
              present |-> TRUE]

\* Whether add_preference reaches its set_profile call.
AddPreferenceWrites(prof, preference, static) ==
    ~InList(preference, IF static THEN prof.static ELSE prof.dynamic)

\* As CacheContext, but nothing is stored.
CacheContextLost(cache, project, context) == cache

\* RedisCache.cache_context: SETEX aiana:context:<project>
CacheContext(cache, project, context) == [cache EXCEPT ![project] = context]

\* As GetCachedContext, but an entry older than the Profile's latest
\* preference counts as absent.
GetCachedContextFresh(cache, project) ==
    IF profile.present THEN None ELSE cache[project]

\* RedisCache.get_cached_context: GET aiana:context:<project>
GetCachedContext(cache, project) == cache[project]

\* As InvalidateContext, but the key is left in place.
InvalidateContextSkipped(cache, project) == cache

\* RedisCache.invalidate_context: DEL aiana:context:<project>
InvalidateContext(cache, project) == [cache EXCEPT ![project] = None]

\* ------------------------------------------------------------------
\* storage/qdrant.py : QdrantStorage.get_recent
\* ------------------------------------------------------------------
RECURSIVE SortByTsDesc(_)
SortByTsDesc(points) ==
    IF points = <<>> THEN <<>>
    ELSE LET i == CHOOSE i \in 1..Len(points) :
                      \A j \in 1..Len(points) : points[j].ts <= points[i].ts
             rest == [j \in 1..(Len(points) - 1) |->
                          IF j < i THEN points[j] ELSE points[j + 1]]
         IN  <<points[i]>> \o SortByTsDesc(rest)

\* scroll(filter project, limit) takes the first limit matching points
\* in the collection's own order; they are then sorted by timestamp.
GetRecent(points, limit, project) ==
    LET matching == SelectSeq(points, LAMBDA m : m.project = project)
    IN  Take(SortByTsDesc(Take(matching, limit)), limit)

\* ------------------------------------------------------------------
\* storage/sqlite.py : AianaStorage.list_sessions
\* ------------------------------------------------------------------
Reverse(s) == [i \in 1..Len(s) |-> s[Len(s) + 1 - i]]

\* WHERE project_path LIKE %project% ORDER BY started_at DESC LIMIT ?
\* (rows are inserted with increasing started_at)
ListSessions(rows, project, limit) ==
    SqlLimit(Reverse(SelectSeq(rows,
        LAMBDA r : Like(PathChars(r.project_path), Chars(project)))), limit)

\* started_at.strftime("%Y-%m-%d %H:%M"): the seconds are dropped.
Strftime(t) == << <<"minute", t \div 60>> >>

\* ------------------------------------------------------------------
\* context/injector.py : the sections of a context
\* ------------------------------------------------------------------
NoSection == <<>>

Bullets(items) == [i \in 1..Len(items) |-> Lit("- ") \o items[i]]

\* _get_profile_section, given what get_profile returned
ProfileSection(c, prof) ==
    IF ~c.redis \/ ~prof.present THEN NoSection
    ELSE LET lines == <<Lit("## User Preferences (Persistent)")>>
                          \o Bullets(Take(prof.static, 5))
         IN  IF Len(lines) > 1 THEN Join(lines, NL) ELSE NoSection

\* As ProjectSection, but the session list is read and rendered whatever
\* the semantic query found.
ProjectSectionBoth(c, project, max_items, qdrantFails, sqliteFails) ==
    LET head == <<Lit("## Project: ") \o Lit(project)>>
        recent == IF c.qdrant /\ ~qdrantFails
                    THEN GetRecent(collection, max_items, project) ELSE <<>>
        lines1 == IF recent # <<>>
                    THEN head \o <<Lit("\n### Recent Activity")>>
                         \o Bullets([i \in 1..Len(Take(recent, 5)) |->
                                Prefix(Lit(recent[i].content), 150)])
                    ELSE head
        listed == IF c.sqlite /\ ~sqliteFails
                    THEN ListSessions(sessions, project, 5) ELSE <<>>
        lines2 == IF listed # <<>>
                    THEN lines1 \o <<Lit("\n### Recent Sessions")>>
                         \o Bullets([i \in 1..Len(listed) |->
                                Strftime(listed[i].started_at) \o Lit(": ")
                                \o Str(listed[i].message_count) \o Lit(" messages")])
                    ELSE lines1
    IN  IF recent # <<>> \/ listed # <<>> THEN Join(lines2, NL) ELSE NoSection

\* _get_project_section; qdrantFails and sqliteFails say whether the
\* backend raises when it is queried in this call.
ProjectSection(c, project, max_items, qdrantFails, sqliteFails) ==
    LET head == <<Lit("## Project: ") \o Lit(project)>>
        recent == IF c.qdrant /\ ~qdrantFails
                    THEN GetRecent(collection, max_items, project) ELSE <<>>
        found1 == recent # <<>>
        lines1 == IF found1
                    THEN head \o <<Lit("\n### Recent Activity")>>
                         \o Bullets([i \in 1..Len(Take(recent, 5)) |->
                                Prefix(Lit(recent[i].content), 150)])
                    ELSE head
        listed == IF c.sqlite /\ ~found1 /\ ~sqliteFails
                    THEN ListSessions(sessions, project, 5) ELSE <<>>
        found2 == found1 \/ listed # <<>>
        lines2 == IF listed # <<>>
                    THEN lines1 \o <<Lit("\n### Recent Sessions")>>
                         \o Bullets([i \in 1..Len(listed) |->
                                Strftime(listed[i].started_at) \o Lit(": ")
                                \o Str(listed[i].message_count) \o Lit(" messages")])
                    ELSE lines1
    IN  IF found2 THEN Join(lines2, NL) ELSE NoSection

\* _get_recent_section, given what get_profile returned
RecentSection(c, prof, max_items) ==
    IF ~c.redis THEN NoSection
    ELSE LET dynamic == IF prof.present THEN prof.dynamic ELSE <<>>
         IN  IF dynamic = <<>> THEN NoSection
             ELSE Join(<<Lit("## Recent Context")>>
                         \o Bullets(Take(dynamic, max_items)), NL)

\* _format_context
FormatContext(sections, project) ==
    Lit("<aiana-context>\nThe following context is recalled from your previous sessions.\nUse this to inform your responses but don't explicitly reference it.\n")
    \o NL \o Join(sections, Lit("\n\n")) \o NL \o Lit("\n</aiana-context>")

\* _format_empty_context
FormatEmptyContext(project) ==
    Lit("<aiana-context>\nNo previous context found for project: ")
    \o Lit(project) \o Lit("\nMemories will be saved as you work.\n</aiana-context>")

\* ------------------------------------------------------------------
\* context/injector.py : ContextInjector.generate_context
\* ------------------------------------------------------------------
\* env.redisFailsAt: the first Redis call of this invocation that raises
\* ("get", "profile" for either get_profile, "set") or "never"; env.qdrantFails,
\* env.sqliteFails: whether those backends raise when queried.
RedisCalls == {"get", "profile", "set"}

\* As GenSections, but the cross-project section is put first.
GenSectionsRecentFirst(c, project, max_items, env) ==
    LET s1 == ProfileSection(c, profile)
        s2 == ProjectSection(c, project, max_items, env.qdrantFails, env.sqliteFails)
        s3 == RecentSection(c, profile, max_items)
    IN  SelectSeq(<<s3, s1, s2>>, LAMBDA s : s # NoSection)

GenSections(c, project, max_items, env) ==
    LET s1 == ProfileSection(c, profile)
        s2 == ProjectSection(c, project, max_items, env.qdrantFails, env.sqliteFails)
        s3 == RecentSection(c, profile, max_items)
    IN  SelectSeq(<<s1, s2, s3>>, LAMBDA s : s # NoSection)

\* As GenerateContextResult, but the placeholder is cached like any
\* other text.
GenerateContextResultCachingEmpty(c, cwd, max_items, env, git) ==
    LET project == GetProjectName(cwd, git)
        cached == GetCachedContext(ctxCache, project)
        sections == GenSections(c, project, max_items, env)
        base == [project |-> project, max_items |-> max_items,
                 redisFailed |-> FALSE, hit |-> FALSE, wrote |-> FALSE,
                 kind |-> "return", text |-> <<>>]
        raised == [base EXCEPT !.kind = "raise", !.redisFailed = TRUE]
    IN  IF c.redis /\ env.redisFailsAt = "get" THEN raised
        ELSE IF c.redis /\ cached # None
          THEN [base EXCEPT !.hit = TRUE, !.text = cached]
        ELSE IF c.redis /\ env.redisFailsAt = "profile" THEN raised
        ELSE IF c.redis /\ env.redisFailsAt = "set" THEN raised
        ELSE [base EXCEPT !.text = IF sections = <<>>
                                     THEN FormatEmptyContext(project)
                                     ELSE FormatContext(sections, project),
                          !.wrote = c.redis]

\* The result: kind "raise" or "return", the text, whether it came from
\* the cache (hit) and whether it was written to the cache (wrote).
GenerateContextResult(c, cwd, max_items, env, git) ==
    LET project == GetProjectName(cwd, git)
        cached == GetCachedContext(ctxCache, project)
        sections == GenSections(c, project, max_items, env)
        base == [project |-> project, max_items |-> max_items,
                 redisFailed |-> FALSE, hit |-> FALSE, wrote |-> FALSE,
                 kind |-> "return", text |-> <<>>]
        raised == [base EXCEPT !.kind = "raise", !.redisFailed = TRUE]
    IN  IF c.redis /\ env.redisFailsAt = "get" THEN raised
        ELSE IF c.redis /\ cached # None
          THEN [base EXCEPT !.hit = TRUE, !.text = cached]
        ELSE IF c.redis /\ env.redisFailsAt = "profile" THEN raised
        ELSE IF sections = <<>>
          THEN [base EXCEPT !.text = FormatEmptyContext(project)]
        ELSE IF c.redis /\ env.redisFailsAt = "set" THEN raised
        ELSE [base EXCEPT !.text = FormatContext(sections, project),
                          !.wrote = c.redis]

\* One backend call of generate_context: the method called, the limit
\* passed, whether it raised and how many items it handed back.
BackendCall(source, limit, failed, got) ==
    [source |-> source, limit |-> limit, failed |-> failed,
     got |-> IF failed THEN 0 ELSE got]

\* As GenerateContextCalls, but a cached context does not end the call.
GenerateContextCallsNoFastPath(c, cwd, max_items, env, git) ==
    LET project == GetProjectName(cwd, git)
        recent == GetRecent(collection, max_items, project)
    IN  (IF c.redis THEN <<BackendCall("get_cached_context", 0, FALSE, 1),
                           BackendCall("get_profile", 0, FALSE, 1)>> ELSE <<>>)
        \o (IF c.qdrant
              THEN <<BackendCall("get_recent", max_items, env.qdrantFails, Len(recent))>>
              ELSE <<>>)

\* The backend calls one generate_context makes, in order, up to its
\* return or to the call that raises out of it.
GenerateContextCalls(c, cwd, max_items, env, git) ==
    LET project == GetProjectName(cwd, git)
        cached == GetCachedContext(ctxCache, project)
        getFails == env.redisFailsAt = "get"
        profileFails == env.redisFailsAt = "profile"
        lookup == IF c.redis
                    THEN <<BackendCall("get_cached_context", 0, getFails,
                                       IF cached # None THEN 1 ELSE 0)>>
                    ELSE <<>>
        getProfile == IF c.redis
                        THEN <<BackendCall("get_profile", 0, profileFails,
                                           IF profile.present THEN 1 ELSE 0)>>
                        ELSE <<>>
        recent == GetRecent(collection, max_items, project)
        found == c.qdrant /\ ~env.qdrantFails /\ recent # <<>>
        getRecent == IF c.qdrant
                       THEN <<BackendCall("get_recent", max_items,
                                          env.qdrantFails, Len(recent))>>
                       ELSE <<>>
        listSessions == IF c.sqlite /\ ~found
                          THEN <<BackendCall("list_sessions", 5, env.sqliteFails,
                                    Len(ListSessions(sessions, project, 5)))>>
                          ELSE <<>>
        sections == GenSections(c, project, max_items, env)
        cacheContext == IF c.redis /\ sections # <<>>
                          THEN <<BackendCall("cache_context", 0,
                                             env.redisFailsAt = "set", 0)>>
                          ELSE <<>>
    IN  IF c.redis /\ (getFails \/ cached # None) THEN lookup
        ELSE IF c.redis /\ profileFails THEN lookup \o getProfile
        ELSE lookup \o getProfile \o getRecent \o listSessions \o getProfile
             \o cacheContext

\* ------------------------------------------------------------------
\* context/injector.py : ContextInjector.__init__
\* ------------------------------------------------------------------
InjectorParams == {"redis_cache", "qdrant_storage", "sqlite_storage"}

\* Python raises TypeError on a keyword the signature does not have.
ContextInjectorInit(kwargs) ==
    IF kwargs \subseteq InjectorParams THEN "constructed" ELSE "TypeError"

\* ------------------------------------------------------------------
\* mcp/server.py : AianaMCPServer._init_backends
\* ------------------------------------------------------------------
\* ok.redis, ok.mem0, ok.qdrant: whether constructing that backend
\* succeeds this time; a failure leaves the field as it was.
InitBackends(s, ok) ==
    LET mem0 == IF ok.mem0 THEN TRUE ELSE s.mem0
        kwargs == {"redis_cache", "qdrant_storage", "mem0_storage", "sqlite_storage"}
    IN  [sqlite |-> TRUE,
         redis |-> IF ok.redis THEN TRUE ELSE s.redis,
         mem0 |-> mem0,
         qdrant |-> IF ~mem0 /\ ok.qdrant THEN TRUE ELSE s.qdrant,
         injector |-> IF ContextInjectorInit(kwargs) = "constructed"
                        THEN TRUE ELSE s.injector]

InitOutcomes == [redis : BOOLEAN, mem0 : BOOLEAN, qdrant : BOOLEAN]

\* call_tool turns a result into text and any exception into an error.
ToolReply(name, outcome) ==
    IF outcome.kind = "raise"
      THEN [tool |-> name, kind |-> "error", value |-> None]
      ELSE [tool |-> name, kind |-> "result", value |-> outcome.value]

NoReply == [tool |-> None, kind |-> None, value |-> None]

\* ------------------------------------------------------------------
\* storage/sqlite.py : AianaStorage.add_feedback
\* ------------------------------------------------------------------
\* The ratings callers pass, and the ones the ledger defines.
Ratings == {-1, 0, 1, 2}
ValidRatings == {-1, 0, 1}
MemoryIds == {"m1", "m2"}

\* Every call passes the same query text, so two entries for one memory
\* are two entries for one (memory, query) pair.
Queries == {"q"}

\* As AddFeedback, but INSERT OR REPLACE on the (memory, query) pair.
AddFeedbackUpsert(rows, memory_id, query, rating, dbFails) ==
    IF dbFails
      THEN [kind |-> "raise", rows |-> rows, feedback_id |-> 0]
      ELSE [kind |-> "return",
            rows |-> Append(SelectSeq(rows, LAMBDA r :
                                ~(r.memory_id = memory_id /\ r.query = query)),
                            [id |-> Len(rows) + 1, memory_id |-> memory_id,
                             query |-> query, rating |-> rating]),
            feedback_id |-> Len(rows) + 1]

\* AianaStorage.add_feedback: INSERT INTO memory_feedback; the row id is
\* a fresh uuid (here the row's number).  dbFails: the INSERT raises.
AddFeedback(rows, memory_id, query, rating, dbFails) ==
    IF dbFails
      THEN [kind |-> "raise", rows |-> rows, feedback_id |-> 0]
      ELSE [kind |-> "return",
            rows |-> Append(rows, [id |-> Len(rows) + 1, memory_id |-> memory_id,
                                   query |-> query, rating |-> rating]),
            feedback_id |-> Len(rows) + 1]

\* ------------------------------------------------------------------
\* storage/sqlite.py : AianaStorage.get_feedback_summary
\* ------------------------------------------------------------------
RECURSIVE Gcd(_, _)
Gcd(a, b) == IF b = 0 THEN a ELSE Gcd(b, a % b)

\* The number a / b (a >= 0, b > 0), kept exact as a fraction in lowest terms.
Frac(a, b) == LET g == Gcd(a, b) IN [num |-> a \div g, den |-> b \div g]

Less(x, y) == x.num * y.den < y.num * x.den

RECURSIVE SumSeq(_)
SumSeq(xs) == IF xs = <<>> THEN 0 ELSE Head(xs) + SumSeq(Tail(xs))

\* SELECT COUNT(*) as total, SUM(CASE WHEN rating = 1 THEN 1 ELSE 0 END)
\* as helpful FROM memory_feedback
Overall(rows) ==
    [total |-> Len(rows),
     helpful |-> SumSeq([i \in 1..Len(rows) |->
                            IF rows[i].rating = 1 THEN 1 ELSE 0])]

\* As HelpfulRate, but every rating above 0 counts as helpful.
HelpfulRatePositive(rows) ==
    LET total == Len(rows)
        helpful == SumSeq([i \in 1..Len(rows) |->
                              IF rows[i].rating > 0 THEN 1 ELSE 0])
    IN  IF total # 0 THEN Frac(helpful * 100, total) ELSE Frac(0, 1)

\* As HelpfulRate, but read before the latest row is visible.
HelpfulRateBeforeLast(rows) ==
    LET overall == Overall(SubSeq(rows, 1, Len(rows) - 1))
    IN  IF overall.total # 0
          THEN Frac(overall.helpful * 100, overall.total) ELSE Frac(0, 1)

\* (overall["helpful"] / overall["total"] * 100) if overall["total"] else 0
HelpfulRate(rows) ==
    LET overall == Overall(rows)
    IN  IF overall.total # 0
          THEN Frac(overall.helpful * 100, overall.total) ELSE Frac(0, 1)

\* SELECT memory_id, SUM(rating) as score, COUNT(*) as feedback_count
\* ... GROUP BY memory_id: one row per memory id, here in the order of
\* each memory's first feedback row.
GroupByMemory(rows) ==
    LET firsts == SelectSeq([i \in 1..Len(rows) |-> i],
                    LAMBDA i : \A j \in 1..(i - 1) :
                                  rows[j].memory_id # rows[i].memory_id)
        of(id) == SelectSeq(rows, LAMBDA r : r.memory_id = id)
    IN  [k \in 1..Len(firsts) |->
            LET id == rows[firsts[k]].memory_id
            IN  [memory_id |-> id,
                 score |-> SumSeq([j \in 1..Len(of(id)) |-> of(id)[j].rating]),
                 feedback_count |-> Len(of(id))]]

\* SQL leaves the order of rows with equal score open: the earlier or
\* the later group comes first.
TieOrders == {"first", "last"}

RECURSIVE OrderByScoreDesc(_, _)
\* ORDER BY score DESC
OrderByScoreDesc(groups, tie) ==
    IF groups = <<>> THEN <<>>
    ELSE LET best == {i \in 1..Len(groups) :
                        \A j \in 1..Len(groups) : groups[j].score <= groups[i].score}
             i == IF tie = "first"
                    THEN CHOOSE b \in best : \A c \in best : b <= c
                    ELSE CHOOSE b \in best : \A c \in best : c <= b
             rest == [j \in 1..(Len(groups) - 1) |->
                         IF j < i THEN groups[j] ELSE groups[j + 1]]
         IN  <<groups[i]>> \o OrderByScoreDesc(rest, tie)

\* for r in top_memories[:10]
TOP_MEMORIES == 10

GetFeedbackSummary(rows, limit, tie) ==
    [limit |-> limit,
     total_feedback |-> Overall(rows).total,
     helpful_rate |-> HelpfulRate(rows),
     top_memories |-> Take(SqlLimit(OrderByScoreDesc(GroupByMemory(rows), tie),
                                    limit), TOP_MEMORIES)]

NoSummary == [limit |-> 0, total_feedback |-> 0, helpful_rate |-> Frac(0, 1),
              top_memories |-> <<>>]

\* _memory_feedback: add_feedback, then the label {1: .., 0: .., -1: ..}[rating]
\* whose lookup raises KeyError on any other rating.
MemoryFeedback(s, rows, memory_id, query, rating, dbFails) ==
    IF ~s.sqlite
      THEN [kind |-> "return", rows |-> rows, called |-> FALSE,
            value |-> [status |-> "error", feedback_id |-> 0, rating |-> rating]]
      ELSE LET a == AddFeedback(rows, memory_id, query, rating, dbFails)
           IN  [kind |-> IF a.kind = "raise" \/ rating \notin {1, 0, -1}
                           THEN "raise" ELSE "return",
                rows |-> a.rows, called |-> TRUE,
                value |-> [status |-> "recorded", feedback_id |-> a.feedback_id,
                           rating |-> rating]]

\* ------------------------------------------------------------------
\* Initial state
\* ------------------------------------------------------------------
\* out: the method called (op), how it ended (kind: "return" or "raise")
\* and its arguments; for generate_context the text returned, whether it
\* came from the cache (hit), was written to it (wrote), whether a Redis
\* call raised (redisFailed, for save_session_summary too), whether the call directly follows a
\* returned call with the same arguments (repeat) and whether it is the
\* first after a save_session_summary of its project (afterSave: "no",
\* "saved", or "dropped" when that save deleted a cache entry); for
\* add_preference the string (text), the list (static) and whether the
\* string was in the list (already) and how many entries the list held
\* before the call (size); for add_feedback the rating; for
\* get_feedback_summary the dict returned (summary); for install_hooks
\* and uninstall_hooks the bool returned (returned); for the SessionEnd
\* hook the summary stored (text); for a search or an add of a memory
\* the backends that can be constructed, the limit passed, the backend
\* queries and the backend writes made, for a get_project_name the
\* directory passed and the directories that hold a .git entry (trace).
NoTrace == [up |-> [mem0 |-> FALSE, qdrant |-> FALSE], limit |-> 0,
            queries |-> <<>>, writes |-> <<>>, cwd |-> <<>>, git |-> {}]

NoCall == [op |-> None, kind |-> None, project |-> None, max_items |-> 0,
           text |-> <<>>, hit |-> FALSE, wrote |-> FALSE,
           redisFailed |-> FALSE, repeat |-> FALSE, afterSave |-> "no",
           static |-> FALSE, already |-> FALSE, size |-> 0, rating |-> 0,
           summary |-> NoSummary, returned |-> FALSE, trace |-> NoTrace]

Called(op, project, kind) == [NoCall EXCEPT !.op = op, !.project = project, !.kind = kind]

\* ------------------------------------------------------------------
\* hooks.py : install_hooks, uninstall_hooks
\* ------------------------------------------------------------------
\* settings.json: whether the file exists, whether it is valid JSON,
\* whether it has a "hooks" key, and under that key, for every event
\* that is present, its list of groups, each group being the list of
\* the commands of its "hooks" list.
HookEvents == {"SessionStart", "SessionEnd", "PostToolUse"}

NoHooks == [e \in HookEvents |-> [present |-> FALSE, configs |-> <<>>]]

NoSettings == [exists |-> FALSE, valid |-> FALSE, hasHooks |-> FALSE,
               hooks |-> NoHooks]

\* get_hooks_config()["hooks"]
AianaHooks ==
    [e \in HookEvents |->
        CASE e = "SessionStart" -> << <<"aiana hook session-start">> >>
          [] e = "SessionEnd" -> << <<"aiana hook session-end">> >>
          [] e = "PostToolUse" -> << <<"aiana hook post-tool">> >>]

UserCommands == {"lint"}

\* "aiana" in hook.get("command", "")
IsAiana(command) == command \notin UserCommands

\* json.load of the file, {} when it is missing or not valid JSON
Existing(st) == IF st.exists /\ st.valid THEN st ELSE NoSettings

InstallHooks(st, force) ==
    LET existing == Existing(st)
        start == existing.hooks["SessionStart"]
        installed ==
            /\ existing.hasHooks /\ ~force
            /\ start.present
            /\ \E i \in 1..Len(start.configs) :
                  \E j \in 1..Len(start.configs[i]) : IsAiana(start.configs[i][j])
    IN  IF installed THEN [settings |-> st, returned |-> FALSE]
        ELSE [settings |->
                [exists |-> TRUE, valid |-> TRUE, hasHooks |-> TRUE,
                 hooks |-> [e \in HookEvents |->
                              [present |-> TRUE,
                               configs |-> existing.hooks[e].configs \o AianaHooks[e]]]],
              returned |-> TRUE]

UninstallHooks(st) ==
    IF ~st.exists \/ ~st.valid \/ ~st.hasHooks
      THEN [settings |-> st, returned |-> FALSE]
    ELSE
      LET new_hooks(config) == SelectSeq(config, LAMBDA c : ~IsAiana(c))
          filtered(e) == [i \in 1..Len(st.hooks[e].configs) |->
                             new_hooks(st.hooks[e].configs[i])]
          new_configs(e) == SelectSeq(filtered(e), LAMBDA h : h # <<>>)
          present == {e \in HookEvents : st.hooks[e].present}
          modified ==
              \/ \E e \in present : \E i \in 1..Len(filtered(e)) : filtered(e)[i] = <<>>
              \/ \E e \in present : new_configs(e) = <<>>
      IN  [settings |->
             IF modified
               THEN [st EXCEPT !.hooks =
                       [e \in HookEvents |->
                          IF e \in present /\ new_configs(e) # <<>>
                            THEN [present |-> TRUE, configs |-> new_configs(e)]
                            ELSE [present |-> FALSE, configs |-> <<>>]]]
               ELSE st,
           returned |-> modified]

\* No _memory_search in progress.  Of a search in progress: the backend
\* queries it issues if each one is answered (queries), how many have
\* been answered (at), which one is never answered (hangs, 0: none) and
\* the dict it returns at the end (result).
NoSearch == [active |-> FALSE, queries |-> <<>>, at |-> 0, hangs |-> 0,
             result |-> [project |-> None, limit |-> 0, count |-> 0,
                         results |-> <<>>]]

\* No call in progress.
\* The add_preference call that finished last: its arguments, the
\* Profile it had read (seen), the Profile stored when it reached its
\* set_profile (before) and whether it did write.
NoWrite == [preference |-> <<>>, static |-> FALSE, seen |-> NoProfile,
            before |-> NoProfile, wrote |-> FALSE]

\* The processes that call add_preference on the one Redis server.
Writers == {"w1", "w2"}

\* A process that is not inside add_preference.
NoWriter == [active |-> FALSE, preference |-> <<>>, static |-> FALSE,
             seen |-> NoProfile]

\* writers: for each process, the add_preference call it is in, between
\* its get_profile and its set_profile, with the Profile it read.
NothingRunning == [calls |-> <<>>, stale |-> {}, search |-> NoSearch,
                   writers |-> [w \in Writers |-> NoWriter],
                   written |-> NoWrite]

\* ------------------------------------------------------------------
\* The capture of one transcript
\* ------------------------------------------------------------------
MaxLines == 3    \* lines Claude Code writes to the transcript
MaxCount == 3    \* largest message_count the model lets a session reach
MaxHanded == 2   \* how often the model lets one line reach the storage

\* The threads that deliver file-modification events to the handler.
Handlers == {"h1", "h2"}

\* A thread outside _process_new_lines.
Idle == [pc |-> "idle", at |-> 0]

\* lines: the transcript holds lines 1..lines, line k carrying the
\* message whose uuid is k, and offsets are counted in lines.
\* messages: the ids of the rows of the messages table.
\* session: the sessions row whose id is the transcript's session.
\* file_positions: the handler's entry for the transcript (0 without).
\* lock: the thread that holds TranscriptHandler._lock, or None.
\* handed: how often the handler passed each line to
\* storage.append_message and the call returned.
NothingCaptured ==
    [lines |-> 0, messages |-> {},
     session |-> [exists |-> FALSE, message_count |-> 0],
     file_positions |-> 0, lock |-> None,
     threads |-> [h \in Handlers |-> Idle],
     handed |-> [k \in 1..MaxLines |-> 0]]

InitServer ==
    /\ srv = [sqlite |-> FALSE, redis |-> FALSE, mem0 |-> FALSE,
              qdrant |-> FALSE, injector |-> FALSE]
    /\ reply = NoReply
    /\ asked = <<>>

EmptyStores ==
    /\ ctxCache = [p \in Projects |-> None]
    /\ profile = NoProfile
    /\ collection = <<>>
    /\ sessions = <<>>

Configs == [redis : BOOLEAN, qdrant : BOOLEAN, sqlite : BOOLEAN]

Init ==
    /\ InitServer
    /\ feedback = <<>>
    /\ cfg = [redis |-> FALSE, qdrant |-> FALSE, sqlite |-> FALSE]
    /\ EmptyStores
    /\ out = NoCall
    /\ pending = {}
    /\ issued = 0
    /\ settings = NoSettings
    /\ running = NothingRunning
    /\ capture = NothingCaptured

\* A ContextInjector constructed with any choice of backends.
InitRecall ==
    /\ InitServer
    /\ feedback = <<>>
    /\ cfg \in Configs
    /\ EmptyStores
    /\ out = NoCall
    /\ pending = {}
    /\ issued = 0
    /\ settings = NoSettings
    /\ running = NothingRunning
    /\ capture = NothingCaptured

\* ------------------------------------------------------------------
\* call_tool("memory_search", ...)
\* ------------------------------------------------------------------
Down == [fails |-> TRUE, items |-> <<>>, n |-> 0]
Mem0Outcomes == {[fails |-> FALSE, items |-> a, n |-> Len(a)] : a \in Mem0LibAnswers} \cup {Down}
CountOutcomes == {[fails |-> FALSE, items |-> <<>>, n |-> k] : k \in 0..MaxRaw} \cup {Down}
QdrantOutcomes ==
    {[fails |-> FALSE, items |-> a, n |-> Len(a)] : a \in SeqsUpTo(PayloadContents, MaxRaw)}
    \cup {Down}

\* traced: whether the call's backends and queries are kept in out.
MemorySearchCall(traced) ==
    /\ reply = NoReply
    /\ \E ok \in InitOutcomes, limit \in 0..MaxLimit, project \in SearchProjects :
      LET s == InitBackends(srv, ok) IN
      \E m0 \in IF s.mem0 THEN Mem0Outcomes ELSE {Down} :
        LET r1 == AfterMem0(s, [mem0 |-> m0], limit, project) IN
        \E qd \in IF QdrantQueried(s, r1, limit) THEN QdrantOutcomes ELSE {Down} :
          LET r2 == AfterQdrant(s, [qdrant |-> qd], limit, r1) IN
          \E sq \in IF SqliteQueried(s, r2, limit) THEN CountOutcomes ELSE {Down} :
            LET env == [mem0 |-> m0, qdrant |-> qd, sqlite |-> sq] IN
            /\ srv' = s
            /\ reply' = ToolReply("memory_search", MemorySearch(s, env, limit, project))
            /\ asked' = MemorySearchAsked(s, env, limit, project)
            /\ out' = IF ~traced THEN out
                       ELSE [Called("memory_search", project, "return") EXCEPT
                          !.trace = [NoTrace EXCEPT
                             !.up = [mem0 |-> ok.mem0, qdrant |-> ok.qdrant],
                             !.limit = limit,
                             !.queries = MemorySearchAsked(s, env, limit, project)]]
            /\ UNCHANGED <<feedback, cfg, stores, pending, issued, extra>>

CallMemorySearch ==
    /\ reply = NoReply
    /\ MemorySearchCall(FALSE)

\* _memory_recall: the injector's context, or a notice without one.
MemoryRecall(s, project, max_items, env) ==
    IF s.injector
      THEN LET r == GenerateContextResult(
                        [redis |-> s.redis, qdrant |-> s.qdrant, sqlite |-> s.sqlite],
                        ProjectDir(project), max_items, env, GitDirs)
           IN  [kind |-> r.kind,
                value |-> [project |-> project, context |-> r.text],
                wrote |-> r.wrote]
      ELSE [kind |-> "return",
            value |-> [project |-> project,
                       context |-> Lit("No context available for ") \o Lit(project)],
            wrote |-> FALSE]

ServerGenEnvs(s) ==
    IF s.injector
      THEN [redisFailsAt : RedisCalls \cup {"never"},
            qdrantFails : BOOLEAN, sqliteFails : BOOLEAN]
      ELSE {[redisFailsAt |-> "never", qdrantFails |-> FALSE, sqliteFails |-> FALSE]}

\* call_tool("memory_recall", {"project": project})
CallMemoryRecall ==
    /\ reply = NoReply
    /\ \E ok \in InitOutcomes, project \in Projects :
         LET s == InitBackends(srv, ok) IN
         \E env \in ServerGenEnvs(s) :
           LET r == MemoryRecall(s, project, 5, env) IN
           /\ srv' = s
           /\ reply' = ToolReply("memory_recall", r)
           /\ ctxCache' = IF r.wrote
                             THEN CacheContext(ctxCache, project, r.value.context)
                             ELSE ctxCache
           /\ UNCHANGED <<asked, feedback, cfg, profile, collection, sessions,
                          out, pending, issued, extra>>

\* The client reads the reply; the server is ready for the next request.
TakeReply ==
    /\ reply # NoReply
    /\ reply' = NoReply
    /\ asked' = <<>>
    /\ UNCHANGED <<srv, feedback, cfg, stores, out, pending, issued, extra>>

NextServer == CallMemorySearch \/ CallMemoryRecall \/ TakeReply

SpecServer == Init /\ [][NextServer]_vars

\* `aiana memory search QUERY -p PROJECT -l LIMIT`, a process of its own.
CliMemorySearchCommand ==
    /\ reply = NoReply
    /\ out = NoCall
    /\ \E up \in [mem0 : BOOLEAN, qdrant : BOOLEAN], limit \in 0..MaxLimit,
          project \in SearchProjects :
      \E m0 \in IF up.mem0 THEN Mem0Outcomes ELSE {Down} :
        LET r1 == CliAfterMem0(up, [mem0 |-> m0], limit, project) IN
        \E qd \in IF CliQdrantTried(r1) /\ up.qdrant THEN QdrantOutcomes ELSE {Down} :
          LET r2 == CliAfterQdrant(up, [qdrant |-> qd], limit, r1) IN
          \E sq \in IF CliSqliteQueried(r2) THEN CountOutcomes ELSE {Down} :
            LET env == [mem0 |-> m0, qdrant |-> qd, sqlite |-> sq]
                r == CliMemorySearch(up, env, limit, project)
            IN  /\ out' = [Called("cli_memory_search", project, r.kind) EXCEPT
                              !.size = r.printed,
                              !.trace = [NoTrace EXCEPT
                                 !.up = up, !.limit = limit,
                                 !.queries = CliMemorySearchAsked(up, env, limit, project)]]
                /\ UNCHANGED <<server, feedback, cfg, stores, pending, issued, extra>>

\* The tool call again, keeping what it did.
CallMemorySearchTraced ==
    /\ out = NoCall
    /\ MemorySearchCall(TRUE)

\* The client takes the tool's reply, or the command's process exits.
TakeOutcome ==
    /\ out # NoCall
    /\ reply' = NoReply
    /\ asked' = <<>>
    /\ out' = NoCall
    /\ UNCHANGED <<srv, feedback, cfg, stores, pending, issued, extra>>

\* The aggregated search through the MCP tool and through the CLI.
NextSearch == CallMemorySearchTraced \/ CliMemorySearchCommand \/ TakeOutcome

SpecSearch == Init /\ [][NextSearch]_vars

\* ------------------------------------------------------------------
\* Direct calls of ContextInjector and of the stores behind it
\* ------------------------------------------------------------------
RecallProjects == {"a"}
MaxItemsValues == {1, 5}
Summaries == {"c200"}
StaticPreferences == {"s1"}
MessageCounts == {3}

\* A backend that is not configured is never called.
GenEnvs ==
    [redisFailsAt : IF cfg.redis THEN RedisCalls \cup {"never"} ELSE {"never"},
     qdrantFails : IF cfg.qdrant THEN BOOLEAN ELSE {FALSE},
     sqliteFails : IF cfg.sqlite THEN BOOLEAN ELSE {FALSE}]


\* injector.generate_context(cwd, max_items=max_items); traced: whether
\* the backend calls it made are kept in out.
GenerateContextStep(project, max_items, env, traced) ==
      LET r == GenerateContextResult(cfg, ProjectDir(project), max_items, env, GitDirs) IN
      /\ ctxCache' = IF r.wrote THEN CacheContext(ctxCache, r.project, r.text)
                     ELSE ctxCache
      /\ out' = [op |-> "generate_context", kind |-> r.kind,
                 project |-> r.project, max_items |-> max_items,
                 text |-> r.text, hit |-> r.hit, wrote |-> r.wrote,
                 redisFailed |-> r.redisFailed,
                 repeat |-> /\ out.op = "generate_context"
                            /\ out.kind = "return"
                            /\ out.project = r.project
                            /\ out.max_items = max_items,
                 afterSave |-> IF <<r.project, TRUE>> \in pending THEN "dropped"
                               ELSE IF <<r.project, FALSE>> \in pending THEN "saved"
                               ELSE "no",
                 static |-> FALSE, already |-> FALSE, size |-> 0, rating |-> 0,
                 summary |-> NoSummary, returned |-> FALSE,
                 trace |-> IF ~traced THEN NoTrace
                           ELSE [NoTrace EXCEPT !.limit = max_items,
                                   !.queries = GenerateContextCalls(cfg,
                                       ProjectDir(project), max_items, env, GitDirs)]]
      /\ pending' = IF r.kind = "return"
                       THEN {e \in pending : e[1] # r.project} ELSE pending
      /\ UNCHANGED <<server, feedback, cfg, profile, collection, sessions, issued, extra>>

GenerateContext ==
    \E project \in RecallProjects, max_items \in MaxItemsValues,
       env \in GenEnvs :
      GenerateContextStep(project, max_items, env, FALSE)

GenerateContextTraced ==
    \E project \in RecallProjects, max_items \in MaxItemsValues,
       env \in GenEnvs :
      GenerateContextStep(project, max_items, env, TRUE)

\* QdrantStorage.add_memory: the new point gets a random uuid, so it may
\* land anywhere in the collection's scroll order.
InsertAt(points, pos, point) ==
    SubSeq(points, 1, pos - 1) \o <<point>> \o SubSeq(points, pos, Len(points))

SummaryEntry(project, summary) ==
    Lit("[") \o Lit(project) \o Lit("] ") \o Prefix(Lit(summary), 100)

SaveSteps == {"qdrant_add", "profile_get", "profile_set", "invalidate"}

\* The steps save_session_summary performs on this injector.
SaveReaches(c, step, project, summary) ==
    CASE step = "qdrant_add" -> c.qdrant
      [] step = "profile_get" -> c.redis
      [] step = "profile_set" ->
            c.redis /\ AddPreferenceWrites(profile, SummaryEntry(project, summary), FALSE)
      [] step = "invalidate" -> c.redis

StepRank(step) ==
    CASE step = "qdrant_add" -> 1 [] step = "profile_get" -> 2
      [] step = "profile_set" -> 3 [] step = "invalidate" -> 4
      [] step = "never" -> 5

\* injector.save_session_summary(session_id, project, summary); failsAt
\* is the step whose backend call raises, if that step is reached.
SaveSessionSummaryEffect(c, project, summary, failsAt, pos) ==
    LET raised == failsAt # "never" /\ SaveReaches(c, failsAt, project, summary)
        done(step) == SaveReaches(c, step, project, summary)
                        /\ (~raised \/ StepRank(step) < StepRank(failsAt))
    IN  [kind |-> IF raised THEN "raise" ELSE "return",
         collection |-> IF done("qdrant_add")
                          THEN InsertAt(collection, pos,
                                 [content |-> summary, project |-> project,
                                  ts |-> Len(collection) + 1])
                          ELSE collection,
         profile |-> IF done("profile_set")
                       THEN AddPreference(profile, SummaryEntry(project, summary), FALSE)
                       ELSE profile,
         ctxCache |-> IF done("invalidate")
                        THEN InvalidateContext(ctxCache, project)
                        ELSE ctxCache]

SaveSessionSummary ==
    /\ cfg.qdrant => Len(collection) < MaxMem
    /\ \E project \in Projects, summary \in Summaries,
          failsAt \in SaveSteps \cup {"never"},
          pos \in 1..(Len(collection) + 1) :
         LET r == SaveSessionSummaryEffect(cfg, project, summary, failsAt, pos) IN
         /\ collection' = r.collection
         /\ profile' = r.profile
         /\ ctxCache' = r.ctxCache
         /\ out' = [Called("save_session_summary", project, r.kind)
                       EXCEPT !.redisFailed = r.kind = "raise" /\ failsAt # "qdrant_add"]
         /\ pending' =
              IF r.kind = "return" /\ project \in RecallProjects
                THEN {e \in pending : e[1] # project}
                     \cup {<<project, \/ <<project, TRUE>> \in pending
                                      \/ ctxCache[project] # r.ctxCache[project]>>}
                ELSE pending
         /\ UNCHANGED <<server, feedback, cfg, sessions, issued, extra>>

\* `aiana prefer`: RedisCache().add_preference(preference, static=True)
AddStaticPreference ==
    \E preference \in StaticPreferences, redisFails \in BOOLEAN :
      /\ profile' = IF redisFails THEN profile
                    ELSE AddPreference(profile, Lit(preference), TRUE)
      /\ out' = [Called("add_preference", None, IF redisFails THEN "raise" ELSE "return")
                    EXCEPT !.text = Lit(preference), !.static = TRUE,
                           !.already = InList(Lit(preference), profile.static),
                           !.size = Len(profile.static)]
      /\ UNCHANGED <<server, feedback, cfg, ctxCache, collection, sessions, pending, issued, extra>>

\* AianaStorage.create_session followed by the session's messages:
\* a row of the sessions table with its message_count. A NULL ended_at
\* is 0 and a NULL summary is <<>>.
CreateSession ==
    /\ Len(sessions) < MaxSessions
    /\ \E project \in Projects, count \in MessageCounts :
         /\ sessions' = Append(sessions,
                [project_path |-> ProjectDir(project),
                 started_at |-> 60 * (Len(sessions) + 1) + 30,
                 ended_at |-> 0, summary |-> <<>>,
                 message_count |-> count])
         /\ out' = Called("create_session", project, "return")
         /\ UNCHANGED <<server, feedback, cfg, ctxCache, profile, collection, pending, issued, extra>>

\* Redis drops a context key when its TTL (TTL_CONTEXT) runs out.
\* AianaStorage.end_session: UPDATE sessions SET ended_at, summary.
EndSession(rows, i, now, summary) ==
    [rows EXCEPT ![i].ended_at = now, ![i].summary = summary]

\* The first user message among the session's first five messages, or
\* None when there is none.
FirstUserMessages == {"c200", None}

\* HookHandler._handle_session_end: the summary is the first user
\* message cut to 200 characters, stored through end_session. Nothing
\* else is touched: the hook holds no ContextInjector and no RedisCache.
HandleSessionEnd ==
    \E i \in 1..Len(sessions), project \in Projects, first \in FirstUserMessages :
      /\ sessions[i].project_path = ProjectDir(project)
      /\ LET summary == IF first = None THEN <<>> ELSE Prefix(Lit(first), 200) IN
           /\ sessions' = EndSession(sessions, i, sessions[i].started_at + 60, summary)
           /\ out' = [Called("session_end", project, "return") EXCEPT !.text = summary]
      /\ UNCHANGED <<server, feedback, cfg, ctxCache, profile, collection,
                     pending, issued, extra>>

ExpireContext ==
    \E project \in Projects :
      /\ ctxCache[project] # None
      /\ ctxCache' = [ctxCache EXCEPT ![project] = None]
      /\ out' = Called("expire", project, "return")
      /\ UNCHANGED <<server, feedback, cfg, profile, collection, sessions, pending, issued, extra>>

\* ------------------------------------------------------------------
\* The feedback ledger
\* ------------------------------------------------------------------
\* storage.add_feedback(memory_id, memory_source, query, rating)
AddFeedbackCall ==
    /\ Len(feedback) < MaxFeedback
    /\ \E memory_id \in MemoryIds, query \in Queries, rating \in Ratings,
          dbFails \in BOOLEAN :
         LET a == AddFeedback(feedback, memory_id, query, rating, dbFails) IN
         /\ feedback' = a.rows
         /\ out' = [Called("add_feedback", None, a.kind) EXCEPT !.rating = rating]
         /\ UNCHANGED <<server, cfg, stores, pending, issued, extra>>

\* The optional backends are not installed where the ledger is checked.
NoOptionalBackends == [redis |-> FALSE, mem0 |-> FALSE, qdrant |-> FALSE]

\* call_tool("memory_feedback", {...})
CallMemoryFeedback ==
    /\ reply = NoReply
    /\ Len(feedback) < MaxFeedback
    /\ \E memory_id \in MemoryIds, query \in Queries, rating \in Ratings,
          dbFails \in BOOLEAN :
         LET s == InitBackends(srv, NoOptionalBackends)
             r == MemoryFeedback(s, feedback, memory_id, query, rating, dbFails)
         IN
         /\ srv' = s
         /\ feedback' = r.rows
         /\ reply' = ToolReply("memory_feedback", r)
         /\ out' = IF r.called
                      THEN [Called("add_feedback", None,
                                   IF dbFails THEN "raise" ELSE "return")
                              EXCEPT !.rating = rating]
                      ELSE out
         /\ UNCHANGED <<asked, cfg, stores, pending, issued, extra>>

\* storage.get_feedback_summary(limit); _feedback_summary passes none (100)
SummaryLimits == {1, 11, 100}

GetFeedbackSummaryCall ==
    \E limit \in SummaryLimits, tie \in TieOrders :
      /\ out' = [Called("get_feedback_summary", None, "return")
                    EXCEPT !.summary = GetFeedbackSummary(feedback, limit, tie)]
      /\ UNCHANGED <<server, feedback, cfg, stores, pending, issued, extra>>

NextFeedback ==
    \/ AddFeedbackCall
    \/ CallMemoryFeedback
    \/ GetFeedbackSummaryCall
    \/ TakeReply

SpecFeedback == Init /\ [][NextFeedback]_vars

\* A ledger with feedback on many memories: the k-th call rates the
\* k-th memory.
MaxLedger == 11    \* memories that receive feedback

LedgerIds == <<"m1", "m2", "m3", "m4", "m5", "m6", "m7", "m8", "m9", "m10",
               "m11", "m12">>

AddFeedbackNextMemory ==
    /\ Len(feedback) < MaxLedger
    /\ Len(feedback) < Len(LedgerIds)
    /\ \E query \in Queries, rating \in {0, 1} :
         LET a == AddFeedback(feedback, LedgerIds[Len(feedback) + 1], query,
                              rating, FALSE) IN
         /\ feedback' = a.rows
         /\ out' = [Called("add_feedback", None, a.kind) EXCEPT !.rating = rating]
         /\ UNCHANGED <<server, cfg, stores, pending, issued, extra>>

\* ------------------------------------------------------------------
\* Concurrent callers of one ContextInjector
\* ------------------------------------------------------------------
MaxCalls == 2    \* generate_context calls in progress at once

NoFailures == [redisFailsAt |-> "never", qdrantFails |-> FALSE, sqliteFails |-> FALSE]

RemoveAt(seq, i) == SubSeq(seq, 1, i - 1) \o SubSeq(seq, i + 1, Len(seq))

\* What a generate_context call hands to `out` when it returns.
Returned(project, max_items, text, hit, wrote, afterSave) ==
    [Called("generate_context", project, "return")
        EXCEPT !.max_items = max_items, !.text = text, !.hit = hit,
               !.wrote = wrote, !.afterSave = afterSave]

\* generate_context up to its cache lookup: a cached context is returned
\* at once (afterSave "stale": that text was composed before the
\* project's latest summary was saved); otherwise the call goes on.
\* hangs: the backends this call reads next never answer it.
BeginGenerateContext ==
    /\ Len(running.calls) < MaxCalls
    /\ \E project \in RecallProjects, max_items \in MaxItemsValues,
          hangs \in BOOLEAN :
         LET name == GetProjectName(ProjectDir(project), GitDirs)
             cached == GetCachedContext(ctxCache, name)
         IN  IF cfg.redis /\ cached # None
               THEN /\ ~hangs
                    /\ out' = Returned(name, max_items, cached, TRUE, FALSE,
                                       IF name \in running.stale
                                         THEN "stale" ELSE "no")
                    /\ UNCHANGED running
               ELSE /\ hangs => (cfg.redis \/ cfg.qdrant \/ cfg.sqlite)
                    /\ running' = [running EXCEPT !.calls =
                           Append(@, [project |-> name, max_items |-> max_items,
                                      phase |-> "lookup", text |-> <<>>,
                                      stale |-> FALSE, hangs |-> hangs])]
                    /\ UNCHANGED out
    /\ UNCHANGED <<server, feedback, cfg, stores, pending, issued, settings, capture>>

\* generate_context from the sections to _format_context: the stores are
\* read as they are now; without sections the placeholder is returned.
ComposeContext(i) ==
    LET call == running.calls[i]
        sections == GenSections(cfg, call.project, call.max_items, NoFailures)
    IN  /\ call.phase = "lookup"
        /\ ~call.hangs
        /\ IF sections = <<>>
             THEN /\ running' = [running EXCEPT !.calls = RemoveAt(@, i)]
                  /\ out' = Returned(call.project, call.max_items,
                                     FormatEmptyContext(call.project),
                                     FALSE, FALSE, "no")
             ELSE /\ running' = [running EXCEPT
                         !.calls[i].phase = "composed",
                         !.calls[i].text = FormatContext(sections, call.project)]
                  /\ UNCHANGED out
        /\ UNCHANGED <<server, feedback, cfg, stores, pending, issued, settings, capture>>

\* generate_context from cache_context to its return
CacheAndReturn(i) ==
    LET call == running.calls[i] IN
    /\ call.phase = "composed"
    /\ ctxCache' = IF cfg.redis
                      THEN CacheContext(ctxCache, call.project, call.text)
                      ELSE ctxCache
    /\ running' = [running EXCEPT
           !.calls = RemoveAt(@, i),
           !.stale = IF ~cfg.redis THEN @
                     ELSE IF call.stale THEN @ \cup {call.project}
                     ELSE @ \ {call.project}]
    /\ out' = Returned(call.project, call.max_items, call.text, FALSE,
                       cfg.redis, "no")
    /\ UNCHANGED <<server, feedback, cfg, profile, collection, sessions,
                   pending, issued, settings, capture>>

\* save_session_summary while generate_context calls are in progress:
\* what those calls have composed by now was composed before the summary.
SaveSessionSummaryMeanwhile ==
    /\ cfg.qdrant => Len(collection) < MaxMem
    /\ \E project \in Projects, summary \in Summaries,
          pos \in 1..(Len(collection) + 1) :
         LET r == SaveSessionSummaryEffect(cfg, project, summary, "never", pos) IN
         /\ collection' = r.collection
         /\ profile' = r.profile
         /\ ctxCache' = r.ctxCache
         /\ out' = Called("save_session_summary", project, r.kind)
         /\ running' = [running EXCEPT
                !.calls = [i \in 1..Len(@) |->
                             IF @[i].project = project /\ @[i].phase = "composed"
                               THEN [@[i] EXCEPT !.stale = TRUE] ELSE @[i]],
                !.stale = @ \ {project}]
         /\ UNCHANGED <<server, feedback, cfg, sessions, pending, issued, settings, capture>>

NextConcurrent ==
    \/ BeginGenerateContext
    \/ \E i \in 1..Len(running.calls) : ComposeContext(i)
    \/ \E i \in 1..Len(running.calls) : CacheAndReturn(i)
    \/ SaveSessionSummaryMeanwhile
    \/ CreateSession
    \/ AddStaticPreference

SpecConcurrent == InitRecall /\ [][NextConcurrent]_vars

\* ------------------------------------------------------------------
\* Calls whose backends may never answer
\* ------------------------------------------------------------------
\* _memory_search up to its first backend query.  The queries are
\* blocking calls made one after the other, none with a timeout.
BeginMemorySearch ==
    /\ reply = NoReply
    /\ ~running.search.active
    /\ running.calls = <<>>
    /\ \E ok \in InitOutcomes, limit \in {MaxLimit}, project \in {None} :
      LET s == InitBackends(srv, ok) IN
      \E m0 \in IF s.mem0 THEN Mem0Outcomes ELSE {Down} :
        LET r1 == AfterMem0(s, [mem0 |-> m0], limit, project) IN
        \E qd \in IF QdrantQueried(s, r1, limit) THEN QdrantOutcomes ELSE {Down} :
          LET r2 == AfterQdrant(s, [qdrant |-> qd], limit, r1) IN
          \E sq \in IF SqliteQueried(s, r2, limit) THEN CountOutcomes ELSE {Down} :
            LET env == [mem0 |-> m0, qdrant |-> qd, sqlite |-> sq]
                queries == MemorySearchAsked(s, env, limit, project)
            IN
            \E hangs \in 0..Len(queries) :
              /\ srv' = s
              /\ running' = [running EXCEPT !.search =
                     [active |-> TRUE, queries |-> queries, at |-> 0,
                      hangs |-> hangs,
                      result |-> MemorySearch(s, env, limit, project).value]]
              /\ UNCHANGED <<reply, asked, feedback, cfg, stores, out, pending,
                             issued, settings, capture>>

\* The backend queried now answers (or raises): the search goes on.
BackendAnswers ==
    /\ running.search.active
    /\ running.search.at < Len(running.search.queries)
    /\ running.search.at + 1 # running.search.hangs
    /\ running' = [running EXCEPT !.search.at = @ + 1]
    /\ UNCHANGED <<server, feedback, cfg, stores, out, pending, issued, settings, capture>>

\* _memory_search after its last query: the dict goes back to call_tool.
ReturnMemorySearch ==
    /\ running.search.active
    /\ running.search.at = Len(running.search.queries)
    /\ reply' = ToolReply("memory_search",
                          [kind |-> "return", value |-> running.search.result])
    /\ asked' = running.search.queries
    /\ running' = [running EXCEPT !.search = NoSearch]
    /\ UNCHANGED <<srv, feedback, cfg, stores, out, pending, issued, settings, capture>>

\* One caller at a time: a recall starts when nothing else is running.
BeginGenerateContextAlone ==
    /\ reply = NoReply
    /\ ~running.search.active
    /\ running.calls = <<>>
    /\ BeginGenerateContext

\* A ContextInjector with all three backends, one session recorded.
InitLive ==
    /\ InitServer
    /\ feedback = <<>>
    /\ cfg = [redis |-> TRUE, qdrant |-> TRUE, sqlite |-> TRUE]
    /\ ctxCache = [p \in Projects |-> None]
    /\ profile = NoProfile
    /\ collection = <<>>
    /\ sessions = <<[project_path |-> ProjectDir("a"), started_at |-> 90,
                     ended_at |-> 0, summary |-> <<>>, message_count |-> 3]>>
    /\ out = NoCall
    /\ pending = {}
    /\ issued = 0
    /\ settings = NoSettings
    /\ running = NothingRunning
    /\ capture = NothingCaptured

NextLive ==
    \/ BeginMemorySearch
    \/ BackendAnswers
    \/ ReturnMemorySearch
    \/ TakeReply
    \/ BeginGenerateContextAlone
    \/ \E i \in 1..Len(running.calls) : ComposeContext(i)
    \/ \E i \in 1..Len(running.calls) : CacheAndReturn(i)

\* Where every call in progress stands: each step of a call moves it.
position ==
    <<running.search.active, running.search.at, reply.kind,
      [i \in 1..Len(running.calls) |-> running.calls[i].phase]>>

\* A step that is possible is taken: the server and the backends that
\* answer do run.
LiveFairness ==
    /\ WF_position(BackendAnswers)
    /\ WF_position(ReturnMemorySearch)
    /\ WF_position(TakeReply)
    /\ WF_position(\E i \in 1..Len(running.calls) : ComposeContext(i))
    /\ WF_position(\E i \in 1..Len(running.calls) : CacheAndReturn(i))

SpecLive == InitLive /\ [][NextLive]_vars /\ LiveFairness

\* ------------------------------------------------------------------
\* The settings file
\* ------------------------------------------------------------------
MaxGroups == 2       \* groups in one event's list
MaxGroupHooks == 2   \* hooks in one group

\* `aiana install [--force]`
CallInstallHooks ==
    /\ \A e \in HookEvents : Len(Existing(settings).hooks[e].configs) < MaxGroups
    /\ \E force \in BOOLEAN :
         LET r == InstallHooks(settings, force) IN
         /\ settings' = r.settings
         /\ out' = [Called("install_hooks", None, "return")
                       EXCEPT !.returned = r.returned]
         /\ UNCHANGED <<server, feedback, cfg, stores, pending, issued, running, capture>>

\* `aiana uninstall`
CallUninstallHooks ==
    LET r == UninstallHooks(settings) IN
    /\ settings' = r.settings
    /\ out' = [Called("uninstall_hooks", None, "return")
                  EXCEPT !.returned = r.returned]
    /\ UNCHANGED <<server, feedback, cfg, stores, pending, issued, running, capture>>

\* The user adds a hook of their own to the file: as a new group of an
\* event, or to the last group the event has.
UserAddsHook ==
    /\ settings.exists /\ settings.valid /\ settings.hasHooks
    /\ \E e \in HookEvents, command \in UserCommands, grouped \in BOOLEAN :
         LET configs == settings.hooks[e].configs IN
         /\ IF grouped
              THEN /\ configs # <<>>
                   /\ Len(configs[Len(configs)]) < MaxGroupHooks
              ELSE Len(configs) < MaxGroups
         /\ settings' =
              [settings EXCEPT !.hooks[e] =
                 [present |-> TRUE,
                  configs |-> IF grouped
                                THEN [configs EXCEPT ![Len(configs)] =
                                         Append(configs[Len(configs)], command)]
                                ELSE Append(configs, <<command>>)]]
         /\ out' = Called("edit_settings", None, "return")
         /\ UNCHANGED <<server, feedback, cfg, stores, pending, issued, running, capture>>

\* The user replaces the file: by an empty object, or by broken JSON.
UserRewritesSettings ==
    /\ \E valid \in BOOLEAN :
         settings' = [exists |-> TRUE, valid |-> valid, hasHooks |-> FALSE,
                      hooks |-> NoHooks]
    /\ out' = Called("edit_settings", None, "return")
    /\ UNCHANGED <<server, feedback, cfg, stores, pending, issued, running, capture>>

NextHooks ==
    \/ CallInstallHooks
    \/ CallUninstallHooks
    \/ UserAddsHook
    \/ UserRewritesSettings

SpecHooks == Init /\ [][NextHooks]_vars

NextSummary == AddFeedbackNextMemory \/ GetFeedbackSummaryCall

SpecSummary == Init /\ [][NextSummary]_vars

\* ------------------------------------------------------------------
\* The Profile
\* ------------------------------------------------------------------
MaxIssued == 22    \* distinct dynamic preference strings a run uses

\* The i-th distinct string a caller passes as a dynamic preference.
PrefStr(i) == << <<"pref", i>> >>

\* Strings passed as a dynamic preference: a new one, the latest one
\* passed before, or the oldest one still in the list.
DynamicInputs ==
    (IF issued < MaxIssued THEN {issued + 1} ELSE {})
    \cup (IF issued > 0 THEN {issued} ELSE {})
    \cup (IF profile.dynamic # <<>> THEN {profile.dynamic[1][1][2]} ELSE {})

\* cache.add_preference(preference, static=False)
AddDynamicPreference ==
    \E i \in DynamicInputs, redisFails \in BOOLEAN :
      /\ profile' = IF redisFails THEN profile
                    ELSE AddPreference(profile, PrefStr(i), FALSE)
      /\ issued' = IF i > issued /\ ~redisFails THEN i ELSE issued
      /\ out' = [Called("add_preference", None, IF redisFails THEN "raise" ELSE "return")
                    EXCEPT !.text = PrefStr(i), !.static = FALSE,
                           !.already = InList(PrefStr(i), profile.dynamic),
                           !.size = Len(profile.dynamic)]
      /\ UNCHANGED <<server, feedback, cfg, ctxCache, collection, sessions, pending, extra>>

\* Redis drops the profile key when its TTL (TTL_PROFILE) runs out.
ExpireProfile ==
    /\ profile.present
    /\ profile' = NoProfile
    /\ out' = Called("expire", None, "return")
    /\ UNCHANGED <<server, feedback, cfg, ctxCache, collection, sessions,
                   pending, issued, extra>>

NextProfile == AddDynamicPreference \/ AddStaticPreference \/ ExpireProfile

SpecProfile == Init /\ [][NextProfile]_vars

\* ------------------------------------------------------------------
\* add_preference calls of several processes on one Redis server
\* ------------------------------------------------------------------
WriterPreferences == {"p1", "p2"}

\* As SetProfile, but the lists already stored are kept in front of the
\* new ones.
SetProfileMerged(stored, value) ==
    [static |-> stored.static \o value.static,
     dynamic |-> stored.dynamic \o value.dynamic,
     present |-> TRUE]

\* RedisCache.set_profile: SETEX aiana:profile:<user> replaces the value.
SetProfile(stored, value) ==
    [static |-> value.static, dynamic |-> value.dynamic, present |-> TRUE]

\* add_preference up to the return of its get_profile.
BeginAddPreference ==
    \E w \in Writers, preference \in WriterPreferences, static \in BOOLEAN :
         /\ ~running.writers[w].active
         /\ running' = [running EXCEPT !.writers[w] =
                [active |-> TRUE, preference |-> Lit(preference),
                 static |-> static, seen |-> profile]]
         /\ UNCHANGED <<server, feedback, cfg, stores, out, pending, issued, settings, capture>>

\* The rest of add_preference: the membership test on the Profile it
\* read, the append and the set_profile, which may raise.
FinishAddPreference(i) ==
    LET w == running.writers[i]
        writes == AddPreferenceWrites(w.seen, w.preference, w.static)
    IN  \E redisFails \in BOOLEAN :
          /\ w.active
          /\ redisFails => writes
          /\ profile' = IF writes /\ ~redisFails
                          THEN SetProfile(profile,
                                 AddPreference(w.seen, w.preference, w.static))
                          ELSE profile
          /\ running' = [running EXCEPT
                 !.writers[i] = NoWriter,
                 !.written = [preference |-> w.preference, static |-> w.static,
                              seen |-> w.seen, before |-> profile,
                              wrote |-> writes /\ ~redisFails]]
          /\ out' = [Called("add_preference", None,
                            IF redisFails THEN "raise" ELSE "return")
                        EXCEPT !.text = w.preference, !.static = w.static,
                               !.wrote = writes /\ ~redisFails]
          /\ UNCHANGED <<server, feedback, cfg, ctxCache, collection, sessions,
                         pending, issued, settings, capture>>

NextWriters ==
    \/ BeginAddPreference
    \/ \E w \in Writers : FinishAddPreference(w)

SpecWriters == Init /\ [][NextWriters]_vars

NextRecall ==
    \/ GenerateContext
    \/ SaveSessionSummary
    \/ AddStaticPreference
    \/ CreateSession
    \/ ExpireContext

SpecRecall == InitRecall /\ [][NextRecall]_vars

\* `aiana prefer --temporary`: RedisCache().add_preference(preference,
\* static=False)
TemporaryPreferences == {"t1"}

AddTemporaryPreference ==
    \E preference \in TemporaryPreferences, redisFails \in BOOLEAN :
      /\ profile' = IF redisFails THEN profile
                    ELSE AddPreference(profile, Lit(preference), FALSE)
      /\ out' = [Called("add_preference", None, IF redisFails THEN "raise" ELSE "return")
                    EXCEPT !.text = Lit(preference), !.static = FALSE,
                           !.already = InList(Lit(preference), profile.dynamic),
                           !.size = Len(profile.dynamic)]
      /\ UNCHANGED <<server, feedback, cfg, ctxCache, collection, sessions, pending, issued, extra>>

\* Preferences added between recalls.
NextPreferences ==
    \/ GenerateContext
    \/ AddStaticPreference
    \/ AddTemporaryPreference
    \/ CreateSession

SpecPreferences == InitRecall /\ [][NextPreferences]_vars

\* Recall with the backend calls of every generate_context kept.
NextTraced ==
    \/ GenerateContextTraced
    \/ SaveSessionSummary
    \/ CreateSession

SpecTraced == InitRecall /\ [][NextTraced]_vars

\* ------------------------------------------------------------------
\* storage/sqlite.py : create_session and append_message
\* ------------------------------------------------------------------
\* INSERT OR REPLACE INTO sessions: the row is written with the session
\* object's message_count, whatever row was there.
StorageCreateSession(c, message_count) ==
    [c EXCEPT !.session = [exists |-> TRUE, message_count |-> message_count]]

\* INSERT OR REPLACE INTO messages, then UPDATE sessions SET
\* message_count = message_count + 1 WHERE id = session_id: no row,
\* nothing updated (foreign keys are not enforced).
StorageAppendMessage(c, id) ==
    [c EXCEPT !.messages = @ \cup {id},
              !.session.message_count = IF c.session.exists THEN @ + 1 ELSE @]

\* append_message for lines from + 1 .. to of the transcript, in order.
RECURSIVE AppendLines(_, _, _)
AppendLines(c, from, to) ==
    IF from >= to THEN c
    ELSE AppendLines(StorageAppendMessage(c, from + 1), from + 1, to)

\* hooks.py _handle_session_start: create_session with a fresh Session
\* (message_count 0), then _import_transcript appends every line.
HandleSessionStartCapture(c) ==
    AppendLines(StorageCreateSession(c, 0), 0, c.lines)

\* watcher.py scan_existing: reset_position, then _process_new_lines.
ScanExistingCapture(c) ==
    [AppendLines(c, 0, c.lines) EXCEPT !.file_positions = c.lines]

uncaptured == <<server, feedback, cfg, stores, out, pending, issued, settings, running>>

\* Claude Code writes one more line to the transcript.
WriteLine ==
    /\ capture.lines < MaxLines
    /\ capture' = [capture EXCEPT !.lines = @ + 1]
    /\ UNCHANGED uncaptured

CreateSessionRow ==
    /\ capture' = StorageCreateSession(capture, 0)
    /\ UNCHANGED uncaptured

AppendMessage ==
    \E id \in 1..MaxLines :
      /\ capture.session.message_count < MaxCount
      /\ capture' = StorageAppendMessage(capture, id)
      /\ UNCHANGED uncaptured

HandleSessionStart ==
    /\ capture' = HandleSessionStartCapture(capture)
    /\ UNCHANGED uncaptured

ScanExisting ==
    /\ capture.session.message_count < MaxCount
    /\ capture' = ScanExistingCapture(capture)
    /\ UNCHANGED uncaptured

NextCapture ==
    \/ WriteLine
    \/ CreateSessionRow
    \/ AppendMessage
    \/ HandleSessionStart
    \/ ScanExisting

SpecCapture == Init /\ [][NextCapture]_vars

\* ------------------------------------------------------------------
\* watcher.py : TranscriptHandler
\* ------------------------------------------------------------------
\* on_modified: a thread enters _process_new_lines and waits for the lock.
OnModified(h) ==
    /\ capture.threads[h].pc = "idle"
    /\ capture' = [capture EXCEPT !.threads[h].pc = "waiting"]
    /\ UNCHANGED uncaptured

\* with self._lock: pos = self.file_positions.get(str_path, 0); f.seek(pos)
AcquireLock(h) ==
    /\ capture.threads[h].pc = "waiting"
    /\ capture.lock = None
    /\ capture' = [capture EXCEPT !.lock = h,
                       !.threads[h] = [pc |-> "reading", at |-> capture.file_positions]]
    /\ UNCHANGED uncaptured

\* One turn of `for line in f`: the next line goes to append_message,
\* which stores it or raises; a raise leaves _process_new_lines through
\* the with blocks, past the assignment to file_positions.
ProcessLine(h) ==
    /\ capture.threads[h].pc = "reading"
    /\ capture.threads[h].at < capture.lines
    /\ LET k == capture.threads[h].at + 1 IN
       /\ capture.handed[k] < MaxHanded
       /\ \E raises \in BOOLEAN :
            capture' =
              IF raises
                THEN [capture EXCEPT !.lock = None, !.threads[h] = Idle]
                ELSE [StorageAppendMessage(capture, k) EXCEPT
                         !.handed[k] = @ + 1, !.threads[h].at = k]
    /\ UNCHANGED uncaptured

\* The file is exhausted: self.file_positions[str_path] = f.tell()
FinishBatch(h) ==
    /\ capture.threads[h].pc = "reading"
    /\ capture.threads[h].at = capture.lines
    /\ capture' = [capture EXCEPT !.file_positions = capture.threads[h].at,
                                  !.lock = None, !.threads[h] = Idle]
    /\ UNCHANGED uncaptured

NextWatcher ==
    \/ WriteLine
    \/ \E h \in Handlers : OnModified(h)
    \/ \E h \in Handlers : AcquireLock(h)
    \/ \E h \in Handlers : ProcessLine(h)
    \/ \E h \in Handlers : FinishBatch(h)

SpecWatcher == Init /\ [][NextWatcher]_vars

\* ------------------------------------------------------------------
\* get_project_name called on any directory of a small tree
\* ------------------------------------------------------------------
MaxDepth == 3

\* The absolute paths of at most MaxDepth components; <<>> is the root.
Dirs == SeqsUpTo(Projects, MaxDepth)

\* The directories on the way from a directory up to the root, both
\* included.
Ancestors(path) == {SubSeq(path, 1, k) : k \in 0..Len(path)}

\* injector.get_project_name(cwd), with .git entries in any of the
\* directories above cwd or in cwd itself.
CallGetProjectName ==
    /\ out = NoCall
    /\ \E cwd \in Dirs :
        \E git \in SUBSET Ancestors(cwd) :
          /\ out' = [Called("get_project_name", GetProjectName(cwd, git), "return")
                        EXCEPT !.trace = [NoTrace EXCEPT !.cwd = cwd, !.git = git]]
          /\ UNCHANGED <<server, feedback, cfg, stores, pending, issued, extra>>

NextProject == CallGetProjectName \/ TakeOutcome

SpecProject == Init /\ [][NextProject]_vars

\* ------------------------------------------------------------------
\* memory_add : mcp/server.py _memory_add and cli.py memory add
\* ------------------------------------------------------------------
\* Mem0Storage.add_memory: the library's add raises, or the method
\* returns the first id of the answer, or "" for an answer without one.
Mem0AddOutcomes == {"raise", "id", ""}

\* One add_memory call on a backend: whether it raised and whether it
\* returned an identifier that is not empty.
AddCall(source, outcome) ==
    BackendCall(source, 0, outcome = "raise", IF outcome = "" THEN 0 ELSE 1)

\* _memory_add: mem0 inside try/except when the server holds it, then
\* Qdrant `if memory_id is None and self.qdrant`, outside any try.
McpMemoryAdd(s, m0, qdrantFails) ==
    LET id1 == IF s.mem0 /\ m0 # "raise" THEN m0 ELSE None
        first == IF s.mem0 THEN <<AddCall("mem0", m0)>> ELSE <<>>
        falls == id1 = None /\ s.qdrant
        second == IF falls
                    THEN <<AddCall("qdrant", IF qdrantFails THEN "raise" ELSE "id")>>
                    ELSE <<>>
    IN  [kind |-> IF falls /\ qdrantFails THEN "raise" ELSE "return",
         writes |-> first \o second,
         stored |-> falls /\ ~qdrantFails,
         value |-> [memory_id |-> IF falls THEN "id" ELSE id1,
                    backend |-> IF falls THEN "qdrant"
                                ELSE IF id1 # None THEN "mem0" ELSE None]]

\* cli memory add: Mem0Storage() and its add inside one try, then
\* `if not memory_id` QdrantStorage() and its add inside another.
CliMemoryAdd(up, m0, qdrantFails) ==
    LET id1 == IF up.mem0 /\ m0 # "raise" THEN m0 ELSE None
        first == IF up.mem0 THEN <<AddCall("mem0", m0)>> ELSE <<>>
        falls == id1 \in {None, ""}
        second == IF falls /\ up.qdrant
                    THEN <<AddCall("qdrant", IF qdrantFails THEN "raise" ELSE "id")>>
                    ELSE <<>>
        stored == falls /\ up.qdrant /\ ~qdrantFails
    IN  [kind |-> "return",
         writes |-> first \o second,
         stored |-> stored,
         value |-> [memory_id |-> IF stored THEN "id" ELSE id1,
                    backend |-> IF stored THEN "qdrant"
                                ELSE IF id1 # None THEN "mem0" ELSE None]]

AddedPoint(content, project) ==
    [content |-> content, project |-> IF project = None THEN "" ELSE project,
     ts |-> Len(collection) + 1]

\* call_tool("memory_add", {"content": content, "project": project})
CallMemoryAdd ==
    /\ reply = NoReply
    /\ out = NoCall
    /\ Len(collection) < MaxMem
    /\ \E ok \in InitOutcomes, project \in SearchProjects, content \in Summaries,
          m0 \in Mem0AddOutcomes, qdrantFails \in BOOLEAN,
          pos \in 1..(Len(collection) + 1) :
         LET s == InitBackends(srv, ok)
             r == McpMemoryAdd(s, m0, qdrantFails)
         IN  /\ srv' = s
             /\ reply' = ToolReply("memory_add", r)
             /\ collection' = IF r.stored
                                THEN InsertAt(collection, pos, AddedPoint(content, project))
                                ELSE collection
             /\ out' = [Called("memory_add", project, r.kind) EXCEPT
                           !.trace = [NoTrace EXCEPT
                              !.up = [mem0 |-> s.mem0, qdrant |-> s.qdrant],
                              !.writes = r.writes]]
             /\ UNCHANGED <<asked, feedback, cfg, ctxCache, profile, sessions,
                            pending, issued, extra>>

\* `aiana memory add CONTENT -p PROJECT`, a process of its own.
CliMemoryAddCommand ==
    /\ reply = NoReply
    /\ out = NoCall
    /\ Len(collection) < MaxMem
    /\ \E up \in [mem0 : BOOLEAN, qdrant : BOOLEAN], project \in SearchProjects,
          content \in Summaries, m0 \in Mem0AddOutcomes, qdrantFails \in BOOLEAN,
          pos \in 1..(Len(collection) + 1) :
         LET r == CliMemoryAdd(up, m0, qdrantFails)
         IN  /\ collection' = IF r.stored
                                THEN InsertAt(collection, pos, AddedPoint(content, project))
                                ELSE collection
             /\ out' = [Called("cli_memory_add", project, r.kind) EXCEPT
                           !.returned = r.value.memory_id \notin {None, ""},
                           !.trace = [NoTrace EXCEPT !.up = up, !.writes = r.writes]]
             /\ UNCHANGED <<server, feedback, cfg, ctxCache, profile, sessions,
                            pending, issued, extra>>

\* Memories added through the MCP tool and through the CLI.
NextAdd == CallMemoryAdd \/ CliMemoryAddCommand \/ TakeOutcome

SpecAdd == Init /\ [][NextAdd]_vars

\* Recall together with everything that saves a session summary.
NextSessionEnd ==
    \/ GenerateContext
    \/ SaveSessionSummary
    \/ HandleSessionEnd
    \/ CreateSession

SpecSessionEnd == InitRecall /\ [][NextSessionEnd]_vars

\* ==================================================================
\* Properties of the aggregated search
\* ==================================================================
IsSearchReply == reply.tool = "memory_search" /\ reply.kind = "result"

Results == reply.value.results

SourceRank(source) ==
    CASE source = "mem0" -> 1
      [] source = "semantic" -> 2
      [] source = "fulltext" -> 3

\* The position of a hit in its own backend's answer.
HitPos(r) == IF r.source = "fulltext" THEN r.hit.row ELSE r.hit.id

OfSource(source) == SelectSeq(Results, LAMBDA r : r.source = source)

\* C1: the aggregated search returns at most limit results, and reports
\* a count of at most limit, for every limit from 0 up and whatever the
\* backends hand back.
C1_AtMostLimit ==
    reply.tool = "memory_search" =>
        /\ reply.kind = "result"
        /\ Len(Results) <= reply.value.limit
        /\ reply.value.count <= reply.value.limit

\* C2: in the returned list every primary (mem0) result precedes every
\* fallback (semantic) result, which precedes every full-text result,
\* and each backend's results keep the order the backend gave them.
C2_PriorityOrder ==
    IsSearchReply =>
        \A i, j \in 1..Len(Results) :
            i < j =>
                /\ SourceRank(Results[i].source) <= SourceRank(Results[j].source)
                /\ Results[i].source = Results[j].source
                       => HitPos(Results[i]) < HitPos(Results[j])

C2_Witness ==
    /\ IsSearchReply
    /\ \A source \in {"mem0", "semantic", "fulltext"} : Len(OfSource(source)) > 0

C3_WitnessAllEmpty ==
    /\ IsSearchReply
    /\ Len(asked) = 3
    /\ Results = <<>>
    /\ reply.value.limit > 0

\* ==================================================================
\* Properties of recall
\* ==================================================================
IsRecall == out.op = "generate_context"

\* C4: when a Fast Cache call of generate_context fails (the cached
\* context's get, a profile read or the set), the call still returns a
\* text, the composed context or the placeholder, and raises nothing.
C4_CacheFailureNotPropagated ==
    (IsRecall /\ out.redisFailed) =>
        /\ out.kind = "return"
        /\ out.text # <<>>

NoDataFor(project) ==
    /\ ~profile.present
    /\ \A i \in 1..Len(collection) : collection[i].project # project
    /\ ListSessions(sessions, project, 5) = <<>>
    /\ ctxCache[project] = None

\* C5: memory_recall for a project with no Profile, no Memory Records
\* and no sessions answers with exactly the "no previous context found
\* for project" placeholder.
C5_PlaceholderWhenEmpty ==
    \A project \in Projects :
        (/\ reply.tool = "memory_recall"
         /\ reply.kind = "result"
         /\ reply.value.project = project
         /\ NoDataFor(project))
        => reply.value.context = FormatEmptyContext(project)

\* C6 (as stated): a generate_context call that directly follows a
\* returned call with the same project and max_items, nothing written
\* in between, returns the same text as that call.
C6_RepeatIdentical ==
    [][(/\ out'.op = "generate_context"
        /\ out'.repeat
        /\ out'.kind = "return") => out'.text = out.text]_vars

\* C6 (amended): a generate_context call that directly follows a
\* returned call with the same project and max_items returns the same
\* text, from the cache, when the first call's text was held in the
\* Fast Cache (read from it or written to it by that call).
C6_RepeatIdenticalWhenCached ==
    [][(/\ out'.op = "generate_context"
        /\ out'.repeat
        /\ out'.kind = "return"
        /\ (out.hit \/ out.wrote))
       => (out'.text = out.text /\ out'.hit)]_vars

\* The second of two calls was answered from the cache the first filled.
C6_Witness ==
    /\ IsRecall
    /\ out.repeat
    /\ out.kind = "return"
    /\ out.hit
    /\ cfg.qdrant /\ collection # <<>>

\* C7: once save_session_summary(P) has returned, P's cache entry is
\* absent until the next generate_context(P) returns, and that call is
\* not answered from the cache: it recomputes the context.
C7_SaveInvalidates ==
    /\ \A e \in pending : ctxCache[e[1]] = None
    /\ (IsRecall /\ out.afterSave # "no" /\ out.kind = "return") => ~out.hit

\* A recall after a save that deleted a cached context: recomputed and
\* cached again.
C7_Witness ==
    /\ IsRecall
    /\ out.afterSave = "dropped"
    /\ out.kind = "return"
    /\ out.wrote

\* ==================================================================
\* Properties of the Profile
\* ==================================================================
IsAddPreference == out.op = "add_preference" /\ out.kind = "return"

\* C8: the dynamic list never holds more than 20 entries, and adding a
\* string that is not in a list of 20 drops exactly the oldest entry:
\* the other 19 keep their order and the new string comes last.
C8_DynamicCap ==
    [][/\ Len(profile'.dynamic) <= MaxDynamic
       /\ (/\ out'.op = "add_preference"
           /\ out'.kind = "return"
           /\ ~out'.static
           /\ ~out'.already
           /\ Len(profile.dynamic) = MaxDynamic)
          => profile'.dynamic = Tail(profile.dynamic) \o <<out'.text>>]_vars

\* A dynamic preference was added to a list that already held 20.
C8_Witness ==
    /\ IsAddPreference
    /\ ~out.static
    /\ ~out.already
    /\ out.size = MaxDynamic
    /\ Len(profile.dynamic) = MaxDynamic
    /\ profile.dynamic[MaxDynamic] = out.text

NoDuplicates(list) ==
    \A i, j \in 1..Len(list) : list[i] = list[j] => i = j

\* C9: neither list of the Profile ever holds a string twice, and
\* add_preference with a string already in the target list leaves the
\* Profile as it was.
C9_NoDuplicates ==
    [][/\ NoDuplicates(profile'.static)
       /\ NoDuplicates(profile'.dynamic)
       /\ (/\ out'.op = "add_preference"
           /\ out'.kind = "return"
           /\ out'.already) => profile' = profile]_vars

\* A string already in the dynamic list was passed again.
C9_Witness ==
    /\ IsAddPreference
    /\ out.already
    /\ ~out.static
    /\ out.size > 1
    /\ Len(profile.dynamic) = out.size

\* The same for the static list.
C9_WitnessStatic ==
    /\ IsAddPreference
    /\ out.already
    /\ out.static
    /\ Len(profile.static) = 1

\* ==================================================================
\* Properties of the feedback ledger
\* ==================================================================
\* C10: add_feedback with a rating outside {-1, 0, 1} raises, and no
\* entry with such a rating is ever in the feedback history.
C10_InvalidRatingRejected ==
    /\ (out.op = "add_feedback" /\ out.rating \notin ValidRatings)
          => out.kind = "raise"
    /\ \A i \in 1..Len(feedback) : feedback[i].rating \in ValidRatings

\* C11: a successful add_feedback appends exactly one entry, with an
\* identifier no earlier entry has, and leaves the earlier entries as
\* they were, also when the (memory, query) pair has an entry already;
\* the feedback history changes in no other way.
AppendedOne ==
    /\ Len(feedback') = Len(feedback) + 1
    /\ SubSeq(feedback', 1, Len(feedback)) = feedback
    /\ \A i \in 1..Len(feedback) : feedback[i].id # feedback'[Len(feedback')].id

ReplyTaken == reply # NoReply /\ reply' = NoReply

C11_AppendOnly ==
    [][/\ (out'.op = "add_feedback" /\ out'.kind = "return" /\ ~ReplyTaken)
          => AppendedOne
       /\ feedback' # feedback => AppendedOne]_vars

\* Two entries for the same memory and query stand side by side.
C11_Witness ==
    /\ out.op = "add_feedback"
    /\ out.kind = "return"
    /\ \E i \in 1..(Len(feedback) - 1) :
          /\ feedback[i].memory_id = feedback[Len(feedback)].memory_id
          /\ feedback[i].query = feedback[Len(feedback)].query
          /\ feedback[i].id # feedback[Len(feedback)].id

HelpfulEntries == {i \in 1..Len(feedback) : feedback[i].rating = 1}

\* C12: the helpful rate of a summary is 100 * (entries with rating 1) /
\* (all entries) over the whole history, and 0 for an empty history.
C12_HelpfulRate ==
    out.op = "get_feedback_summary" =>
        /\ out.summary.total_feedback = Len(feedback)
        /\ out.summary.helpful_rate.den > 0
        /\ IF feedback = <<>>
             THEN out.summary.helpful_rate.num = 0
             ELSE out.summary.helpful_rate.num * Len(feedback)
                    = 100 * Cardinality(HelpfulEntries) * out.summary.helpful_rate.den

\* A summary over helpful entries and others, one of them rated 2.
C12_Witness ==
    /\ out.op = "get_feedback_summary"
    /\ HelpfulEntries # {}
    /\ \E i \in 1..Len(feedback) : feedback[i].rating = 2
    /\ Less(Frac(0, 1), out.summary.helpful_rate)
    /\ Less(out.summary.helpful_rate, Frac(100, 1))

HelpfulAdded ==
    /\ out'.op = "add_feedback"
    /\ out'.kind = "return"
    /\ out'.rating = 1
    /\ ~ReplyTaken

\* C13 (as stated): after a successful add_feedback with rating 1 the
\* helpful rate is higher than before, whatever the history was.
C13_RateIncreases ==
    [][HelpfulAdded => Less(HelpfulRate(feedback), HelpfulRate(feedback'))]_vars

\* C13 (amended): after a successful add_feedback with rating 1 the
\* helpful rate is never lower than before, and it is higher exactly
\* when the history was empty or held an entry whose rating is not 1.
C13_RateIncreasesUnlessAllHelpful ==
    [][HelpfulAdded =>
          /\ ~Less(HelpfulRate(feedback'), HelpfulRate(feedback))
          /\ Less(HelpfulRate(feedback), HelpfulRate(feedback'))
               <=> (feedback = <<>> \/ \E i \in 1..Len(feedback) :
                                          feedback[i].rating # 1)]_vars

\* A helpful entry was added to a history holding an unhelpful one.
C13_Witness ==
    /\ out.op = "add_feedback"
    /\ out.kind = "return"
    /\ out.rating = 1
    /\ Len(feedback) >= 2
    /\ feedback[Len(feedback)].rating = 1
    /\ \E i \in 1..(Len(feedback) - 1) : feedback[i].rating # 1
    /\ Less(HelpfulRate(SubSeq(feedback, 1, Len(feedback) - 1)),
            HelpfulRate(feedback))

RatedMemories == {feedback[i].memory_id : i \in 1..Len(feedback)}

ScoreOf(id) ==
    SumSeq([i \in 1..Len(feedback) |->
               IF feedback[i].memory_id = id THEN feedback[i].rating ELSE 0])

\* C14: the top memories of a summary hold one entry per memory id with
\* the sum of its ratings, in descending order of that sum, and they are
\* the topN highest-scoring memories: min(topN, memories) entries, none
\* of the memories left out scoring higher than one listed.
C14_TopMemories ==
    out.op = "get_feedback_summary" =>
        LET top == out.summary.top_memories
            listed == {top[i].memory_id : i \in 1..Len(top)}
        IN  /\ \A i, j \in 1..Len(top) : top[i].memory_id = top[j].memory_id => i = j
            /\ \A i \in 1..Len(top) :
                  /\ top[i].memory_id \in RatedMemories
                  /\ top[i].score = ScoreOf(top[i].memory_id)
            /\ \A i, j \in 1..Len(top) : i < j => top[i].score >= top[j].score
            /\ Len(top) = Min(out.summary.limit, Cardinality(RatedMemories))
            /\ \A id \in RatedMemories \ listed :
                  \A i \in 1..Len(top) : ScoreOf(id) <= top[i].score

\* ==================================================================
\* Properties of the composed context
\* ==================================================================
Pos(text, chunk) == {i \in 1..Len(text) : text[i] = chunk}

Has(text, chunk) == Pos(text, chunk) # {}

HasPair(text, c1, c2) == \E i \in Pos(text, c1) : i < Len(text) /\ text[i + 1] = c2

ProfileHeader == <<"## User Preferences (Persistent)", 0>>
ProjectHeader == <<"## Project: ", 0>>
RecentHeader == <<"## Recent Context", 0>>

Before(text, c1, c2) == \A i \in Pos(text, c1), j \in Pos(text, c2) : i < j

Composed == IsRecall /\ out.kind = "return" /\ ~out.hit

\* The scenario: one static preference, one session of 3 messages for
\* the project, no dynamic entries, no Memory Records.
Scenario ==
    /\ profile.static = <<Lit("s1")>>
    /\ profile.dynamic = <<>>
    /\ \A i \in 1..Len(collection) : collection[i].project # out.project
    /\ Len(ListSessions(sessions, out.project, 5)) = 1
    /\ ListSessions(sessions, out.project, 5)[1].message_count = 3

\* C15: a composed context holds each section at most once, in the
\* order profile, project, cross-project; a section without content is
\* left out and the placeholder is returned when all are; the profile
\* section is there whenever the Profile has static preferences; and in
\* the scenario the text has the profile bullet and, with the project
\* section, the "3 messages" line, and no cross-project section.
C15_SectionOrder ==
    Composed =>
        LET text == out.text IN
        /\ \A h \in {ProfileHeader, ProjectHeader, RecentHeader} :
              Cardinality(Pos(text, h)) <= 1
        /\ Before(text, ProfileHeader, ProjectHeader)
        /\ Before(text, ProjectHeader, RecentHeader)
        /\ Before(text, ProfileHeader, RecentHeader)
        /\ Has(text, ProfileHeader) <=> (cfg.redis /\ profile.static # <<>>)
        /\ Has(text, RecentHeader) <=> (cfg.redis /\ profile.dynamic # <<>>)
        /\ Has(text, ProjectHeader) =>
              \/ \E i \in 1..Len(collection) : collection[i].project = out.project
              \/ ListSessions(sessions, out.project, 5) # <<>>
        /\ (\A h \in {ProfileHeader, ProjectHeader, RecentHeader} : ~Has(text, h))
              <=> text = FormatEmptyContext(out.project)
        /\ (cfg.redis /\ Scenario) =>
              /\ HasPair(text, <<"- ", 0>>, <<"s1", 0>>)
              /\ Has(text, ProjectHeader) =>
                    HasPair(text, <<"int", 3>>, <<" messages", 0>>)
              /\ ~Has(text, RecentHeader)

\* The scenario's recall: profile bullet, "3 messages", nothing else.
C15_Witness ==
    /\ Composed
    /\ cfg.redis
    /\ Scenario
    /\ HasPair(out.text, <<"- ", 0>>, <<"s1", 0>>)
    /\ HasPair(out.text, <<"int", 3>>, <<" messages", 0>>)
    /\ ~Has(out.text, RecentHeader)

\* All three sections in one context.
C15_WitnessAll ==
    /\ Composed
    /\ Has(out.text, ProfileHeader)
    /\ Has(out.text, ProjectHeader)
    /\ Has(out.text, RecentHeader)

\* ==================================================================
\* Malformed records, calls that never answer
\* ==================================================================
\* C16: a result handed back without content is dropped by the
\* aggregated search: the search answers with a result, and no entry of
\* the returned list lacks its content.
C16_MalformedDropped ==
    reply.tool = "memory_search" =>
        /\ reply.kind = "result"
        /\ \A i \in 1..Len(Results) :
              Results[i].source = "semantic" => Results[i].hit.content # ""

\* ==================================================================
\* Properties of the settings file
\* ==================================================================
RECURSIVE Flatten(_)
Flatten(lists) == IF lists = <<>> THEN <<>> ELSE Head(lists) \o Flatten(Tail(lists))

\* The commands stored for an event, in order.
Commands(st, e) == IF st.exists /\ st.valid THEN Flatten(st.hooks[e].configs) ELSE <<>>

\* C18: after uninstall_hooks no stored hook has a command containing
\* 'aiana', every other hook is still stored, in its order, and the
\* call returned true exactly when it changed the stored settings.
C18_UninstallRemovesAiana ==
    [][out'.op = "uninstall_hooks" =>
          /\ \A e \in HookEvents :
                /\ \A i \in 1..Len(Commands(settings', e)) :
                      ~IsAiana(Commands(settings', e)[i])
                /\ SelectSeq(Commands(settings', e), LAMBDA c : ~IsAiana(c))
                     = SelectSeq(Commands(settings, e), LAMBDA c : ~IsAiana(c))
          /\ out'.returned <=> settings' # settings]_vars

\* C17: every aggregated search and every recall that has started
\* eventually returns, also when a backend it queries never answers.
C17_AlwaysReturns ==
    /\ running.search.active ~> ~running.search.active
    /\ (running.calls # <<>>) ~> (running.calls = <<>>)

\* C19: with callers running concurrently, a generate_context(P) that
\* starts after save_session_summary(P) has returned never returns a
\* context composed before that summary was recorded.
C19_NoStaleContextAfterSave ==
    (IsRecall /\ out.kind = "return") => out.afterSave # "stale"

\* The call that has just ended saved a session summary for its project,
\* and no Fast Cache call of it failed.
SavedSummary ==
    \/ out.op = "save_session_summary" /\ ~out.redisFailed
    \/ out.op = "session_end" /\ out.text # <<>>

\* C20: after any operation that saves a session summary for a project
\* (save_session_summary, also when its vector add raised, and the
\* SessionEnd hook storing a summary through end_session), that project
\* has no cached composed context.
C20_SaveDeletesCachedContext ==
    SavedSummary => ctxCache[out.project] = None

\* The list of the Profile an add_preference call appends to.
ListOf(prof, static) == IF static THEN prof.static ELSE prof.dynamic

\* C21: when an add_preference call that interleaved with others has
\* written, the Profile stored is exactly the value that call computed
\* from the Profile it had read, its own string appended: the last
\* writer wins, and nothing of what was stored in between is mixed in.
C21_LastWriterWins ==
    running.written.wrote =>
        /\ ListOf(profile, running.written.static) =
              Append(ListOf(running.written.seen, running.written.static),
                     running.written.preference)
        /\ ListOf(profile, ~running.written.static) =
              ListOf(running.written.seen, ~running.written.static)
        /\ InList(running.written.preference,
                  ListOf(profile, running.written.static))

\* Two calls interleaved: the later write replaced a Profile that held
\* another writer's string, which is lost.
C21_Witness ==
    /\ running.written.wrote
    /\ running.written.before # running.written.seen
    /\ \E static \in BOOLEAN :
         \E k \in 1..Len(ListOf(running.written.before, static)) :
            ~InList(ListOf(running.written.before, static)[k],
                    ListOf(profile, static))

\* The search that has just ended, by the MCP tool or by the CLI.
IsSearch == out.op \in {"memory_search", "cli_memory_search"}

\* How many hits the query to a source handed back, 0 without a query.
RECURSIVE GotFrom(_, _)
GotFrom(queries, source) ==
    IF queries = <<>> THEN 0
    ELSE (IF Head(queries).source = source THEN Head(queries).got ELSE 0)
         + GotFrom(Tail(queries), source)

\* Whether a source was queried, and with which limit.
QueriedWith(queries, source, limit) ==
    \E k \in 1..Len(queries) :
        queries[k].source = source /\ queries[k].limit = limit

Queried(queries, source) ==
    \E k \in 1..Len(queries) : queries[k].source = source

\* C22: a search whose primary backend yielded fewer than limit results
\* queries the fallback vector backend, when that backend is there, for
\* exactly limit - count_so_far; it queries the full-text index when the
\* total is still below limit, for the remaining budget; and it queries
\* no further backend once limit results are gathered. For the MCP tool
\* and for the CLI command alike, with a positive limit.
C22_RemainingBudget ==
    (IsSearch /\ out.trace.limit > 0) =>
        LET q == out.trace.queries
            limit == out.trace.limit
            c1 == GotFrom(q, "mem0")
            c2 == c1 + GotFrom(q, "semantic")
        IN  /\ (c1 < limit /\ out.trace.up.qdrant)
                  => QueriedWith(q, "semantic", limit - c1)
            /\ c1 >= limit => ~Queried(q, "semantic")
            /\ c2 < limit => QueriedWith(q, "fulltext", limit - c2)
            /\ c2 >= limit => ~Queried(q, "fulltext")

ActivityHeader == <<"\n### Recent Activity", 0>>
SessionsHeader == <<"\n### Recent Sessions", 0>>

\* C23: the project section of one generate_context uses at most one
\* sub-source: when the semantic recent query handed back a record the
\* session list is neither queried nor rendered, and the session list is
\* queried only when the semantic query handed back nothing, raised or
\* was not made for lack of a backend.
C23_OneSubSource ==
    Composed =>
        LET q == out.trace.queries IN
        /\ GotFrom(q, "get_recent") > 0 =>
              /\ ~Queried(q, "list_sessions")
              /\ ~Has(out.text, SessionsHeader)
        /\ Queried(q, "list_sessions") => GotFrom(q, "get_recent") = 0
        /\ Has(out.text, SessionsHeader) => Queried(q, "list_sessions")
        /\ ~(Has(out.text, ActivityHeader) /\ Has(out.text, SessionsHeader))

\* A project with both a Memory Record and a session: only the record
\* is rendered.
C23_Witness ==
    /\ Composed
    /\ GotFrom(out.trace.queries, "get_recent") > 0
    /\ cfg.sqlite
    /\ ListSessions(sessions, out.project, 5) # <<>>
    /\ Has(out.text, ActivityHeader)

\* The semantic query raised and the session list was rendered instead.
C23_WitnessFallback ==
    /\ Composed
    /\ \E k \in 1..Len(out.trace.queries) :
          out.trace.queries[k].source = "get_recent" /\ out.trace.queries[k].failed
    /\ Has(out.text, SessionsHeader)

\* C24: a generate_context answered from the Fast Cache returns the
\* cached text verbatim and makes no backend call but the cache lookup:
\* no profile read, no vector or Record Store query, no cache write.
C24_FastPath ==
    (IsRecall /\ out.hit) =>
        /\ out.kind = "return"
        /\ out.text = ctxCache[out.project]
        /\ ~out.wrote
        /\ Len(out.trace.queries) = 1
        /\ out.trace.queries[1].source = "get_cached_context"

\* A hit for a project whose stores hold data that a recomputation
\* would have read.
C24_Witness ==
    /\ IsRecall
    /\ out.hit
    /\ profile.present
    /\ cfg.qdrant \/ cfg.sqlite

\* The recall that has just returned answered with the placeholder.
ReturnedPlaceholder ==
    /\ IsRecall
    /\ out.kind = "return"
    /\ out.text = FormatEmptyContext(out.project)

\* C27: the "no previous context found" placeholder is never written to
\* the Fast Cache: a generate_context that returns it wrote nothing, the
\* project's entry is absent afterwards, no entry ever holds the
\* placeholder and so no call is answered with it from the cache.
C27_PlaceholderNotCached ==
    /\ ReturnedPlaceholder =>
          /\ ~out.wrote
          /\ ~out.hit
          /\ ctxCache[out.project] = None
    /\ \A project \in Projects : FormatEmptyContext(project) # ctxCache[project]

\* The placeholder returned by an injector that has a Fast Cache.
C27_Witness ==
    /\ ReturnedPlaceholder
    /\ cfg.redis

\* C28: add_preference, static or dynamic, leaves every cached composed
\* context as it is, and a generate_context for a project whose context
\* is cached returns that cached text, whatever was added to the Profile
\* since it was cached.
C28_PreferenceKeepsCache ==
    [][/\ out'.op = "add_preference" => ctxCache' = ctxCache
       /\ (/\ out'.op = "generate_context"
           /\ out'.kind = "return"
           /\ cfg.redis
           /\ ctxCache[out'.project] # None)
          => /\ out'.hit
             /\ out'.text = ctxCache[out'.project]]_vars

\* A hit that returns a text without the preferences the Profile holds
\* by now.
C28_Witness ==
    /\ IsRecall
    /\ out.hit
    /\ profile.static # <<>>
    /\ profile.dynamic # <<>>
    /\ ~Has(out.text, ProfileHeader)
    /\ ~Has(out.text, RecentHeader)

\* The add of a memory that has just ended, by the MCP tool or the CLI.
IsAdd == out.op \in {"memory_add", "cli_memory_add"}

\* C25: when a memory is added and the primary backend was called, the
\* fallback vector backend is written only if the primary's add raised:
\* a primary add that returned, with an identifier or with an empty one,
\* is followed by no write to the fallback. For the MCP tool and for the
\* CLI command alike.
C25_FallbackOnlyOnError ==
    (IsAdd /\ Queried(out.trace.writes, "mem0") /\ Queried(out.trace.writes, "qdrant"))
        => \E k \in 1..Len(out.trace.writes) :
              out.trace.writes[k].source = "mem0" /\ out.trace.writes[k].failed

\* The directories of the walk from cwd to the root, the root included,
\* that hold a version-control marker.
MarkedOnWalk == out.trace.git \cap Ancestors(out.trace.cwd)

\* The nearest of them: the longest path.
NearestMarked ==
    CHOOSE dir \in MarkedOnWalk : \A e \in MarkedOnWalk : Len(e) <= Len(dir)

\* C26: get_project_name returns the base name of the nearest directory
\* that contains a version-control marker, on the walk that starts at the
\* given directory and goes upward to the filesystem root inclusive, or
\* the base name of the given directory when no directory on that walk
\* contains one.
C26_NearestMarkedDirectory ==
    out.op = "get_project_name" =>
        out.project = IF MarkedOnWalk = {} THEN Name(out.trace.cwd)
                      ELSE Name(NearestMarked)

\* C29: a stored session's message_count equals the number of message
\* rows stored for that session, after any sequence of create_session,
\* append_message, SessionStart transcript import and scan_existing, also
\* when the same message identifier is appended more than once.
C29_CountMatchesRows ==
    capture.session.exists =>
        capture.session.message_count = Cardinality(capture.messages)

\* C30: with no reset_position call, TranscriptHandler hands each line
\* of the transcript to storage at most once, under any interleaving of
\* file-modification events, including when an append raises part-way
\* through a batch of new lines.
C30_EachLineAtMostOnce ==
    \A k \in 1..MaxLines : capture.handed[k] <= 1

====
